---- MODULE Spec2Model ----
(***************************************************************************)
(* Usage polling and policy reconciliation of wgmik-server.                *)
(*                                                                         *)
(* The store (SQLAlchemy tables) and the router are the state.  One        *)
(* polling cycle (scheduler._poll_once) is one step: it runs in a single   *)
(* session that is committed once at the end.  The session is created      *)
(* with autoflush=False (db.py:16), so every query of the cycle reads the  *)
(* rows committed before the cycle; objects added with db.add() during the *)
(* cycle are not visible to its own queries.                               *)
(*                                                                         *)
(* Tables that the code reads only through "ORDER BY ts DESC LIMIT 1" are  *)
(* kept as the rows that carry the greatest timestamp (usage_sample,       *)
(* actions); all Actions of one cycle share the cycle's timestamp.         *)
(***************************************************************************)
EXTENDS Integers, Sequences, FiniteSets, TLC

\* ---- bounds of the model ------------------------------------------------
\* operations that read the clock (cycles, update_peer) in one behaviour
MaxOps == 3
\* clock values at which a behaviour may start
StartTimes == {0, 2}
\* clock ticks in one UTC day, days in one UTC month
TicksPerDay == 2
DaysPerMonth == 2
\* the last clock value of a behaviour that models the passing of time
MaxNow == 6

\* RouterOS internal ids (".id"); "" is the empty id
RosIds == {"", "*1"}
\* byte counters a router can report
RxVals == {1, 3}
TxVals == {0, 2}
\* the counters of the reset example: 1000, 1200, 300
ExampleRx == {300, 1000, 1200}
\* monthly_limit_bytes values an operator sets
LimitVals == {0, 2}
\* quota_valid_from / quota_valid_until texts an operator sets
\* (iso = TRUE: an ISO-8601 instant t; iso = FALSE: text that does not parse)
FromVals == {[iso |-> TRUE, t |-> 1]}
UntilVals == {}
\* the texts of the access-window specification: an instant, and a text that
\* datetime.fromisoformat rejects
unparsable == [iso |-> FALSE, t |-> 0]
WindowFromVals == {[iso |-> TRUE, t |-> 1], unparsable}
WindowUntilVals == {[iso |-> TRUE, t |-> 2], unparsable}
\* indexes of the set_peer_disabled calls of one peer in one cycle that raise
FailSets == {{}, {1}, {1, 2}}

\* ---- kinds of Actions (the strings stored in Action.action) ----------------
AutoDisableKinds == {"quota_disable", "window_disable"}
AutoEnableKinds == {"quota_enable", "window_enable"}
DisableFailedKinds == {"quota_disable_failed", "window_disable_failed"}
EnableFailedKinds == {"quota_enable_failed", "window_enable_failed"}
QuotaDisableKinds == {"quota_disable", "quota_disable_failed"}
ExternalDisableKinds == {"manual_disable", "router_disable"}
PolicyKinds == AutoDisableKinds \cup AutoEnableKinds
FailedKinds == DisableFailedKinds \cup EnableFailedKinds
AllPolicyKinds == PolicyKinds \cup FailedKinds

\* Actions of the reconciliation of the disabled flag (scheduler.py 95-105)
RouterStateKinds == {"router_disable", "router_enable"}

\* what a cycle does with a selected peer: its group is skipped, the peer is
\* missing from the router's list, or the peer is found and polled
CycleStatuses == {"skipped", "missing", "found"}

\* ---- set_peer_disabled(interface, ros_id, disabled) calls and their outcome --
disable_ok == [disabled |-> TRUE, ok |-> TRUE]
disable_raised == [disabled |-> TRUE, ok |-> FALSE]
enable_ok == [disabled |-> FALSE, ok |-> TRUE]
enable_raised == [disabled |-> FALSE, ok |-> FALSE]

VARIABLES
    peer,           \* table peers: id -> [router_id, ros_id, name,
                    \*   allowed_address, disabled, selected]
    usage_sample,   \* table usage_samples per peer: <<>> or <<row of greatest ts>>
    usage_daily,    \* table usage_daily per peer: day -> [rx, tx]
    usage_monthly,  \* table usage_monthly per peer: month_key -> [rx, tx]
    quota,          \* table quotas per peer: <<>> or <<monthly_limit_bytes>>
    valid_from,     \* settings_kv quota_valid_from:<id>: <<>> or <<value>>
    valid_until,    \* settings_kv quota_valid_until:<id>: <<>> or <<value>>
    actions,        \* table actions per peer: [ts, last], the rows of greatest ts
    dev_disabled,   \* router side: the peer's "disabled" flag
    now,            \* the clock
    ops,            \* operations that have read the clock
    obs,            \* what the last operation did, per peer
    hist,           \* per peer, the deltas the cycles have computed so far
    sched,          \* the process-wide scheduler (_scheduler) and its polling job
    session,        \* the SQLAlchemy session of a cycle that is in flight
    settings_kv,    \* settings_kv poll_interval_seconds: <<>> or <<value>>
    settings        \* settings.poll_interval_seconds of the running process

vars == <<peer, usage_sample, usage_daily, usage_monthly, quota, valid_from,
          valid_until, actions, dev_disabled, now, ops, obs, hist, sched, session,
          settings_kv, settings>>

\* ---- scheduler (scheduler.py 15, 321-361) ----------------------------------
\* started: _scheduler is not None; starts: calls of BackgroundScheduler
\* .start(); jobs: the jobs of the scheduler, each with the seconds of its
\* IntervalTrigger (interval), its next run time (next), the number of its
\* executions that have not returned (running), the run times skipped because
\* an execution was still running (missed), the time its running execution
\* began (begun) and the time its trigger was last replaced (since)
no_scheduler == [started |-> FALSE, starts |-> 0, jobs |-> <<>>]

\* add_job(_poll_once, IntervalTrigger(seconds), id="polling-job") at time t:
\* the trigger's start date is t + seconds
new_job(seconds, t) ==
    [interval |-> seconds, next |-> t + seconds, running |-> 0, missed |-> 0,
     begun |-> 0, since |-> t]

\* add_job is called without max_instances (scheduler.py 336-341, 356-361):
\* the scheduler's default number of concurrent executions of one job
max_instances == 1

\* the jobs of s that have an execution running
running_jobs(s) == {j \in 1..Len(s.jobs) : s.jobs[j].running > 0}

\* an execution of _poll_once returns to the scheduler's executor
job_returned(s) ==
    IF running_jobs(s) # {}
    THEN LET j == CHOOSE i \in running_jobs(s) : \A k \in running_jobs(s) : i <= k
         IN  [s EXCEPT !.jobs[j].running = @ - 1]
    ELSE s

\* settings.py 12: poll_interval_seconds of a process that has hydrated nothing
poll_interval_seconds == 30

\* ---- str, str.isdigit and int of Python, on strings as character sequences ----
Digits == <<"0", "1", "2", "3", "4", "5", "6", "7", "8", "9">>

RECURSIVE str(_)
\* str(n) of an int: decimal digits, "-" in front of a negative number
str(n) ==
    IF n < 0 THEN <<"-">> \o str(0 - n)
    ELSE IF n < 10 THEN <<Digits[n + 1]>>
    ELSE str(n \div 10) \o <<Digits[(n % 10) + 1]>>

\* s.isdigit(): s is not empty and every character of s is a digit
isdigit(s) == s # <<>> /\ \A i \in DOMAIN s : \E d \in DOMAIN Digits : Digits[d] = s[i]

RECURSIVE digits_value(_)
digits_value(s) ==
    IF s = <<>> THEN 0
    ELSE 10 * digits_value(SubSeq(s, 1, Len(s) - 1))
         + (CHOOSE d \in 0..9 : Digits[d + 1] = s[Len(s)])

\* int(s): digits after an optional sign; ok = FALSE stands for ValueError
int(s) ==
    IF isdigit(s) THEN [ok |-> TRUE, value |-> digits_value(s)]
    ELSE IF Len(s) > 1 /\ s[1] = "-" /\ isdigit(Tail(s))
         THEN [ok |-> TRUE, value |-> 0 - digits_value(Tail(s))]
    ELSE IF Len(s) > 1 /\ s[1] = "+" /\ isdigit(Tail(s))
         THEN [ok |-> TRUE, value |-> digits_value(Tail(s))]
    ELSE [ok |-> FALSE, value |-> 0]

\* seconds of the polling interval: found at startup (the persisted override
\* or settings.poll_interval_seconds), sent by an operator in SettingsDTO
StartIntervals == {2}
DtoIntervals == {0, 1, 3}

\* session of a cycle in flight (db = SessionLocal(), scheduler.py 30): t is
\* now_utc, inp what the routers answer, todo the peers still to be handled,
\* res the pending writes per peer.  no_session: no cycle is in flight.
no_session == [open |-> FALSE, t |-> 0, inp |-> <<>>, todo |-> {}, res |-> <<>>]

\* ---- calendar -----------------------------------------------------------
\* now_utc.strftime("%Y-%m-%d")
day_key(t) == t \div TicksPerDay
\* now_utc.strftime("%Y-%m")
month_key(t) == t \div (TicksPerDay * DaysPerMonth)
\* UsageDaily.day.like(month_prefix + "%")
day_in_month(d, m) == d \div DaysPerMonth = m

\* ---- helpers ------------------------------------------------------------
RECURSIVE SumBytes(_, _)
SumBytes(tbl, keys) ==
    IF keys = {} THEN 0
    ELSE LET k == CHOOSE x \in keys : TRUE
         IN  tbl[k].rx + tbl[k].tx + SumBytes(tbl, keys \ {k})

\* retry: the Actions stored before the cycle recorded a failed auto-disable
idle_obs == [status |-> "idle", calls |-> <<>>, logged |-> <<>>, drx |-> 0, dtx |-> 0,
             retry |-> FALSE]

\* db.add(Action(peer_id, ts, action)) for every kind of logged, in order
add_actions(tbl, logged, t) ==
    IF logged = <<>> THEN tbl
    ELSE IF tbl.last # <<>> /\ tbl.ts = t
         THEN [ts |-> t, last |-> tbl.last \o logged]
         ELSE [ts |-> t, last |-> logged]

\* ---- history of the computed deltas ---------------------------------------
\* hist[p].on says whether the history is kept in this behaviour; log holds,
\* per poll of the peer, the counters read and the deltas computed; skipped
\* counts the cycles that skipped the peer's group after its first poll
no_hist == [on |-> FALSE, log |-> <<>>, skipped |-> 0]

\* the poll of time t read counters rx, tx and computed delta d
record_delta(h, rx, tx, d, t) ==
    IF ~h.on THEN h
    ELSE [h EXCEPT !.log = Append(@, [t |-> t, rx |-> rx, tx |-> tx,
                                      drx |-> d.rx, dtx |-> d.tx])]

\* a cycle left the peer out because list_wireguard_peers failed
record_skip(h) ==
    IF h.on /\ h.log # <<>> THEN [h EXCEPT !.skipped = @ + 1] ELSE h

\* ---- Delta Calculator (scheduler.py 125-139) ------------------------------
delta_unguarded(prev, cur) == cur - prev

delta(prev, cur) == IF cur < prev THEN cur ELSE cur - prev

\* scheduler.py 126-127
no_delta == [rx |-> 0, tx |-> 0, reset |-> FALSE]

compute_deltas_no_baseline(last_sample, lp) ==
    IF last_sample = <<>>
    THEN [rx |-> lp.rx, tx |-> lp.tx, reset |-> FALSE]
    ELSE [rx |-> delta(last_sample[1].rx, lp.rx),
          tx |-> delta(last_sample[1].tx, lp.tx),
          reset |-> lp.rx < last_sample[1].rx \/ lp.tx < last_sample[1].tx]

compute_deltas_rx_reset_only(last_sample, lp) ==
    IF last_sample = <<>>
    THEN no_delta
    ELSE [rx |-> delta(last_sample[1].rx, lp.rx),
          tx |-> delta(last_sample[1].tx, lp.tx),
          reset |-> lp.rx < last_sample[1].rx]

compute_deltas(last_sample, lp) ==
    IF last_sample = <<>>
    THEN no_delta
    ELSE [rx |-> delta(last_sample[1].rx, lp.rx),
          tx |-> delta(last_sample[1].tx, lp.tx),
          reset |-> lp.rx < last_sample[1].rx \/ lp.tx < last_sample[1].tx]

\* ---- Rollup Aggregator (scheduler.py 155-176) -----------------------------
upsert_overwrite(tbl, key, drx, dtx) ==
    [k \in (DOMAIN tbl) \cup {key} |->
        IF k = key THEN [rx |-> drx, tx |-> dtx] ELSE tbl[k]]

upsert(tbl, key, drx, dtx) ==
    IF key \in DOMAIN tbl
    THEN [tbl EXCEPT ![key] = [rx |-> @.rx + drx, tx |-> @.tx + dtx]]
    ELSE [k \in (DOMAIN tbl) \cup {key} |->
            IF k = key THEN [rx |-> drx, tx |-> dtx] ELSE tbl[k]]

update_rollup_always(tbl, key, d) == upsert(tbl, key, d.rx, d.tx)

update_rollup_rx_only(tbl, key, d) ==
    IF d.rx # 0 THEN upsert(tbl, key, d.rx, d.tx) ELSE tbl

\* scheduler.py 155-156
update_rollup(tbl, key, d) ==
    IF d.rx # 0 \/ d.tx # 0 THEN upsert(tbl, key, d.rx, d.tx) ELSE tbl

month_total_bytes_stored(monthly, daily, m) ==
    SumBytes(daily, {d \in DOMAIN daily : day_in_month(d, m)})

\* scheduler.py 178-194: monthly is the session's row object after the upsert,
\* the fallback sums the stored usage_daily rows of the month
month_total_bytes(monthly, daily, m) ==
    IF m \in DOMAIN monthly
    THEN monthly[m].rx + monthly[m].tx
    ELSE SumBytes(daily, {d \in DOMAIN daily : day_in_month(d, m)})

\* ---- Policy Engine ------------------------------------------------------
is_over_quota_strict(q, total) ==
    /\ q # <<>>
    /\ q[1] # 0
    /\ q[1] > 0
    /\ total > q[1]

\* scheduler.py 199, 201
is_over_quota(q, total) ==
    /\ q # <<>>
    /\ q[1] # 0
    /\ q[1] > 0
    /\ total >= q[1]

\* scheduler.py 240-253: datetime.fromisoformat; a text that does not parse
\* leaves the bound unset
parse_bound(kv) ==
    IF kv # <<>> /\ kv[1].iso THEN <<kv[1].t>> ELSE <<>>

is_inside_window_open(window_start, window_end, t) ==
    /\ ~(window_start # <<>> /\ t <= window_start[1])
    /\ ~(window_end # <<>> /\ t >= window_end[1])

\* scheduler.py 254-258
is_inside_window(window_start, window_end, t) ==
    /\ ~(window_start # <<>> /\ t < window_start[1])
    /\ ~(window_end # <<>> /\ t > window_end[1])

failed_kind_same(kind) == kind

\* scheduler.py 221, 279, 311
failed_kind(kind) == kind \o "_failed"

disable_step_no_flip(st, cond, kind, ros_id, fails) ==
    IF ~cond THEN st
    ELSE IF ros_id # ""
         THEN IF (Len(st.calls) + 1) \in fails
              THEN [st EXCEPT !.calls = Append(@, disable_raised),
                              !.logged = Append(@, failed_kind(kind))]
              ELSE [st EXCEPT !.calls = Append(@, disable_ok),
                              !.dev = TRUE,
                              !.logged = Append(@, kind)]
         ELSE [st EXCEPT !.disabled = TRUE, !.logged = Append(@, kind)]

\* scheduler.py 202-235 and 260-292: one auto-disable attempt.
\* st = [disabled, dev, calls, logged]
disable_step(st, cond, kind, ros_id, fails) ==
    IF ~cond THEN st
    ELSE IF ros_id # ""
         THEN IF (Len(st.calls) + 1) \in fails
              THEN [st EXCEPT !.calls = Append(@, disable_raised),
                              !.logged = Append(@, failed_kind(kind))]
              ELSE [st EXCEPT !.calls = Append(@, disable_ok),
                              !.dev = TRUE,
                              !.disabled = TRUE,
                              !.logged = Append(@, kind)]
         ELSE [st EXCEPT !.disabled = TRUE, !.logged = Append(@, kind)]

gate_allows_any(last_action) == last_action # "none"

\* scheduler.py 302
gate_allows(last_action) == last_action \in AutoDisableKinds

\* scheduler.py 303
enable_kind(last_action) ==
    IF last_action = "window_disable" THEN "window_enable" ELSE "quota_enable"

enable_step_flip_on_failure(st, cond, last_action, ros_id, fails) ==
    IF ~(cond /\ gate_allows(last_action)) THEN st
    ELSE IF ros_id # ""
         THEN IF (Len(st.calls) + 1) \in fails
              THEN [st EXCEPT !.calls = Append(@, enable_raised),
                              !.disabled = FALSE,
                              !.logged = Append(@, failed_kind(enable_kind(last_action)))]
              ELSE [st EXCEPT !.calls = Append(@, enable_ok),
                              !.dev = FALSE,
                              !.disabled = FALSE,
                              !.logged = Append(@, enable_kind(last_action))]
         ELSE [st EXCEPT !.disabled = FALSE, !.logged = Append(@, enable_kind(last_action))]

\* scheduler.py 294-314: auto re-enable
enable_step(st, cond, last_action, ros_id, fails) ==
    IF ~(cond /\ gate_allows(last_action)) THEN st
    ELSE IF ros_id # ""
         THEN IF (Len(st.calls) + 1) \in fails
              THEN [st EXCEPT !.calls = Append(@, enable_raised),
                              !.logged = Append(@, failed_kind(enable_kind(last_action)))]
              ELSE [st EXCEPT !.calls = Append(@, enable_ok),
                              !.dev = FALSE,
                              !.disabled = FALSE,
                              !.logged = Append(@, enable_kind(last_action))]
         ELSE [st EXCEPT !.disabled = FALSE, !.logged = Append(@, enable_kind(last_action))]

\* ---- one peer of one cycle (scheduler.py 76-314) --------------------------
\* lp: the live peer [ros_id, name, allowed_address, disabled, rx, tx]
\* (name and allowed_address already with "or ''" applied); fails: failing call
\* indexes; last_action: the row the gating query returns; t: now_utc
poll_peer(p, lp, fails, last_action, t) ==
    LET row == peer[p]
        upd_ros == lp.ros_id # "" /\ row.ros_id # lp.ros_id
        ros_id == IF upd_ros THEN lp.ros_id ELSE row.ros_id
        log1 == IF upd_ros THEN <<"router_update">> ELSE <<>>
        ext == row.disabled # lp.disabled
        dis1 == IF ext THEN lp.disabled ELSE row.disabled
        log2 == IF ext
                THEN Append(log1, IF dis1 THEN "router_disable" ELSE "router_enable")
                ELSE log1
        d == compute_deltas(usage_sample[p], lp)
        log3 == IF d.reset THEN Append(log2, "counter_reset") ELSE log2
        daily == update_rollup(usage_daily[p], day_key(t), d)
        monthly == update_rollup(usage_monthly[p], month_key(t), d)
        total == month_total_bytes(monthly, usage_daily[p], month_key(t))
        over_quota == is_over_quota(quota[p], total)
        st0 == [disabled |-> dis1, dev |-> lp.disabled, calls |-> <<>>, logged |-> log3]
        st1 == disable_step(st0, over_quota /\ ~st0.disabled, "quota_disable", ros_id, fails)
        window_start == parse_bound(valid_from[p])
        window_end == parse_bound(valid_until[p])
        inside_window == is_inside_window(window_start, window_end, t)
        st2 == disable_step(st1,
                            (window_start # <<>> \/ window_end # <<>>)
                                /\ ~inside_window /\ ~st1.disabled,
                            "window_disable", ros_id, fails)
        st3 == enable_step(st2, st2.disabled /\ ~over_quota /\ inside_window,
                           last_action, ros_id, fails)
    IN  [peer |-> [row EXCEPT !.ros_id = ros_id,
                              !.name = lp.name,
                              !.allowed_address = lp.allowed_address,
                              !.disabled = st3.disabled],
         sample |-> <<[ts |-> t, rx |-> lp.rx, tx |-> lp.tx]>>,
         daily |-> daily,
         monthly |-> monthly,
         actions |-> add_actions(actions[p], st3.logged, t),
         dev |-> st3.dev,
         obs |-> [status |-> "found", calls |-> st3.calls, logged |-> st3.logged,
                  drx |-> d.rx, dtx |-> d.tx,
                  retry |-> \E i \in 1..Len(actions[p].last) :
                               actions[p].last[i] \in DisableFailedKinds],
         hist |-> record_delta(hist[p], lp.rx, lp.tx, d, t)]

skipped_obs == [idle_obs EXCEPT !.status = "skipped"]

missing_obs == [idle_obs EXCEPT !.status = "missing", !.logged = <<"router_missing">>]

missing_peer_keep_selected(p, t) ==
    [peer |-> peer[p],
     sample |-> usage_sample[p],
     daily |-> usage_daily[p],
     monthly |-> usage_monthly[p],
     actions |-> add_actions(actions[p], <<"router_missing">>, t),
     dev |-> dev_disabled[p],
     obs |-> missing_obs,
     hist |-> hist[p]]

\* scheduler.py 62-74: the peer is not in the router's list
missing_peer(p, t) ==
    [peer |-> [peer[p] EXCEPT !.selected = FALSE],
     sample |-> usage_sample[p],
     daily |-> usage_daily[p],
     monthly |-> usage_monthly[p],
     actions |-> add_actions(actions[p], <<"router_missing">>, t),
     dev |-> dev_disabled[p],
     obs |-> missing_obs,
     hist |-> hist[p]]

untouched_peer_as_missing(p, status) ==
    IF status = "skipped"
    THEN [missing_peer(p, now) EXCEPT !.obs = skipped_obs]
    ELSE [missing_peer(p, now) EXCEPT !.peer = peer[p], !.actions = actions[p],
                                      !.obs = idle_obs]

\* a peer the cycle does not touch (not selected, or its group is skipped)
untouched_peer(p, status) ==
    [peer |-> peer[p],
     sample |-> usage_sample[p],
     daily |-> usage_daily[p],
     monthly |-> usage_monthly[p],
     actions |-> actions[p],
     dev |-> dev_disabled[p],
     obs |-> [idle_obs EXCEPT !.status = status],
     hist |-> IF status = "skipped" THEN record_skip(hist[p]) ELSE hist[p]]

\* position, among the rows with the greatest ts, of the row the gating
\* query returns (ORDER BY ts DESC does not order rows of equal ts)
TieIndexes == {1, 2, 3}

pick_last_action(tbl, i) ==
    IF tbl.last = <<>> THEN "none"
    ELSE IF i <= Len(tbl.last) THEN tbl.last[i] ELSE tbl.last[Len(tbl.last)]

\* what the router answers for one peer in one cycle, with the byte
\* counters drawn from rxs and txs
MissInputs ==
    [hit : {"unreachable", "missing"}, ros_id : {""}, name : {""},
     allowed_address : {""}, rx : {0}, tx : {0}, fails : {{}}, tie : {1}]

PollInputs(rxs, txs) ==
    MissInputs
    \cup
    [hit : {"found"}, ros_id : RosIds, name : {""}, allowed_address : {""},
     rx : rxs, tx : txs, fails : FailSets, tie : TieIndexes]

\* the router answers of the policy, metering and delta-history specifications
PolicyInputs == PollInputs(RxVals, {0})
UsageInputs == PollInputs(RxVals, TxVals)
CycleInputs == PollInputs(ExampleRx, TxVals)

\* list_wireguard_peers fails for a whole (router_id, interface) group
group_consistent(inp) ==
    \A p, q \in DOMAIN peer :
        peer[p].router_id = peer[q].router_id
            => ((inp[p].hit = "unreachable") <=> (inp[q].hit = "unreachable"))

\* the obs of a result, stored with nothing else of it
only_obs(p, r) == [untouched_peer(p, "idle") EXCEPT !.obs = r.obs]

\* ---- _poll_once (scheduler.py 18-318) -------------------------------------
poll_result_day_ts(p, inp, t) ==
    IF ~peer[p].selected THEN untouched_peer(p, "idle")
    ELSE IF inp.hit = "unreachable" THEN untouched_peer(p, "skipped")
    ELSE IF inp.hit = "missing" THEN missing_peer(p, day_key(t) * TicksPerDay)
    ELSE poll_peer(p,
                   [ros_id |-> inp.ros_id, name |-> inp.name,
                    allowed_address |-> inp.allowed_address,
                    disabled |-> dev_disabled[p], rx |-> inp.rx, tx |-> inp.tx],
                   inp.fails,
                   pick_last_action(actions[p], inp.tie),
                   day_key(t) * TicksPerDay)

poll_result(p, inp, t) ==
    IF ~peer[p].selected THEN untouched_peer(p, "idle")
    ELSE IF inp.hit = "unreachable" THEN untouched_peer(p, "skipped")
    ELSE IF inp.hit = "missing" THEN missing_peer(p, t)
    ELSE poll_peer(p,
                   [ros_id |-> inp.ros_id, name |-> inp.name,
                    allowed_address |-> inp.allowed_address,
                    disabled |-> dev_disabled[p], rx |-> inp.rx, tx |-> inp.tx],
                   inp.fails,
                   pick_last_action(actions[p], inp.tie),
                   t)

poll_once_all_or_nothing(inputs) ==
    /\ ops < MaxOps
    /\ \E inp \in [DOMAIN peer -> inputs] :
        /\ group_consistent(inp)
        /\ \A p \in DOMAIN peer :
              inp[p].tie <= IF actions[p].last = <<>> THEN 1 ELSE Len(actions[p].last)
        /\ LET failed == \E q \in DOMAIN peer :
                            peer[q].selected /\ inp[q].hit = "unreachable"
               res == [p \in DOMAIN peer |->
                         IF failed THEN only_obs(p, poll_result(p, inp[p], now))
                         ELSE poll_result(p, inp[p], now)]
           IN  /\ peer' = [p \in DOMAIN peer |-> res[p].peer]
               /\ usage_sample' = [p \in DOMAIN peer |-> res[p].sample]
               /\ usage_daily' = [p \in DOMAIN peer |-> res[p].daily]
               /\ usage_monthly' = [p \in DOMAIN peer |-> res[p].monthly]
               /\ actions' = [p \in DOMAIN peer |-> res[p].actions]
               /\ dev_disabled' = [p \in DOMAIN peer |-> res[p].dev]
               /\ obs' = [p \in DOMAIN peer |-> res[p].obs]
               /\ hist' = [p \in DOMAIN peer |-> res[p].hist]
    /\ now' = now + 1
    /\ ops' = ops + 1
    /\ sched' = job_returned(sched)
    /\ UNCHANGED <<quota, valid_from, valid_until, session,
                   settings_kv, settings>>

poll_once(inputs) ==
    /\ ops < MaxOps
    /\ \E inp \in [DOMAIN peer -> inputs] :
        /\ group_consistent(inp)
        /\ \A p \in DOMAIN peer :
              inp[p].tie <= IF actions[p].last = <<>> THEN 1 ELSE Len(actions[p].last)
        /\ LET res == [p \in DOMAIN peer |-> poll_result(p, inp[p], now)]
           IN  /\ peer' = [p \in DOMAIN peer |-> res[p].peer]
               /\ usage_sample' = [p \in DOMAIN peer |-> res[p].sample]
               /\ usage_daily' = [p \in DOMAIN peer |-> res[p].daily]
               /\ usage_monthly' = [p \in DOMAIN peer |-> res[p].monthly]
               /\ actions' = [p \in DOMAIN peer |-> res[p].actions]
               /\ dev_disabled' = [p \in DOMAIN peer |-> res[p].dev]
               /\ obs' = [p \in DOMAIN peer |-> res[p].obs]
               /\ hist' = [p \in DOMAIN peer |-> res[p].hist]
    /\ now' = now + 1
    /\ ops' = ops + 1
    /\ sched' = job_returned(sched)
    /\ UNCHANGED <<quota, valid_from, valid_until, session,
                   settings_kv, settings>>

\* ---- _poll_once step by step (scheduler.py 18-318) ---------------------------
\* lines 20-58: the clock is read, the session opened, the selected peers are
\* loaded and the routers answer
begin_cycle(inputs) ==
    /\ ~session.open
    /\ ops < MaxOps
    /\ \E inp \in [DOMAIN peer -> inputs] :
        /\ group_consistent(inp)
        /\ \A p \in DOMAIN peer :
              inp[p].tie <= IF actions[p].last = <<>> THEN 1 ELSE Len(actions[p].last)
        /\ session' =
              [open |-> TRUE, t |-> now, inp |-> inp,
               todo |-> {p \in DOMAIN peer :
                           peer[p].selected /\ inp[p].hit # "unreachable"},
               res |-> [p \in DOMAIN peer |->
                          IF peer[p].selected /\ inp[p].hit = "unreachable"
                          THEN untouched_peer(p, "skipped")
                          ELSE untouched_peer(p, "idle")]]
    /\ now' = now + 1
    /\ ops' = ops + 1
    /\ UNCHANGED <<peer, usage_sample, usage_daily, usage_monthly, quota,
                   valid_from, valid_until, actions, dev_disabled, obs, hist, sched,
                   settings_kv, settings>>

step_peer_autocommit(p) ==
    /\ session.open
    /\ p \in session.todo
    /\ LET r == poll_result(p, session.inp[p], session.t)
       IN  /\ session' = [session EXCEPT !.todo = @ \ {p}, !.res[p] = r]
           /\ dev_disabled' = [dev_disabled EXCEPT ![p] = r.dev]
           /\ usage_sample' = [usage_sample EXCEPT ![p] = r.sample]
    /\ UNCHANGED <<peer, usage_daily, usage_monthly, quota, valid_from,
                   valid_until, actions, now, ops, obs, hist, sched,
                   settings_kv, settings>>

\* lines 60-314 for one peer: the rows are read from the store, the writes
\* stay in the session (autoflush is off), set_peer_disabled acts on the router
step_peer(p) ==
    /\ session.open
    /\ p \in session.todo
    /\ LET r == poll_result(p, session.inp[p], session.t)
       IN  /\ session' = [session EXCEPT !.todo = @ \ {p}, !.res[p] = r]
           /\ dev_disabled' = [dev_disabled EXCEPT ![p] = r.dev]
    /\ UNCHANGED <<peer, usage_sample, usage_daily, usage_monthly, quota,
                   valid_from, valid_until, actions, now, ops, obs, hist, sched,
                   settings_kv, settings>>

\* Actions that go with an assignment of a new value to peer.disabled
FlushedKinds == RouterStateKinds \cup PolicyKinds

\* the UPDATE of the peers row of result r at the flush: the columns the cycle
\* has assigned a new value; the other columns keep what the store holds
flush_peer(row, r) ==
    [row EXCEPT !.ros_id = r.peer.ros_id,
                !.name = r.peer.name,
                !.allowed_address = r.peer.allowed_address,
                !.selected = IF r.obs.status = "missing" THEN FALSE ELSE @,
                !.disabled = IF \E i \in 1..Len(r.obs.logged) :
                                    r.obs.logged[i] \in FlushedKinds
                             THEN r.peer.disabled ELSE @]

\* the INSERTs of the Actions of result r, whose ts is the cycle's now_utc t:
\* rows committed meanwhile with a greater ts stay the most recent ones
flush_actions(tbl, r, t) ==
    IF r.obs.logged = <<>> THEN tbl
    ELSE IF tbl.last # <<>> /\ tbl.ts > t THEN tbl
    ELSE add_actions(tbl, r.obs.logged, t)

\* line 316: db.commit() writes everything the session holds
commit_cycle ==
    /\ session.open
    /\ session.todo = {}
    /\ peer' = [p \in DOMAIN peer |-> flush_peer(peer[p], session.res[p])]
    /\ usage_sample' = [p \in DOMAIN peer |-> session.res[p].sample]
    /\ usage_daily' = [p \in DOMAIN peer |-> session.res[p].daily]
    /\ usage_monthly' = [p \in DOMAIN peer |-> session.res[p].monthly]
    /\ actions' = [p \in DOMAIN peer |->
                     flush_actions(actions[p], session.res[p], session.t)]
    /\ obs' = [p \in DOMAIN peer |-> session.res[p].obs]
    /\ hist' = [p \in DOMAIN peer |-> session.res[p].hist]
    /\ session' = no_session
    /\ UNCHANGED <<quota, valid_from, valid_until, dev_disabled, now, ops, sched,
                   settings_kv, settings>>

\* lines 317-318: an exception (or the end of the process) before the commit
\* has returned leaves the try block; db.close() drops the pending writes
abort_cycle ==
    /\ session.open
    /\ obs' = [p \in DOMAIN peer |->
                 [session.res[p].obs EXCEPT !.status = "aborted"]]
    /\ session' = no_session
    /\ UNCHANGED <<peer, usage_sample, usage_daily, usage_monthly, quota,
                   valid_from, valid_until, actions, dev_disabled, now, ops, hist,
                   sched,
                   settings_kv, settings>>

\* ---- API layer (api/routes.py) ---------------------------------------------
DtoBools == {"none", "true", "false"}

update_peer_ignore_failure(p, selected, disabled, fail) ==
    /\ ops < MaxOps
    /\ disabled # "none" \/ selected # "none"
    /\ LET row == peer[p]
           desired == (disabled = "true")
           called == disabled # "none" /\ row.ros_id # ""
           kind == IF desired THEN "manual_disable" ELSE "manual_enable"
       IN  /\ peer' = [peer EXCEPT
                         ![p].selected = IF selected = "none" THEN @ ELSE (selected = "true"),
                         ![p].disabled = IF disabled = "none" THEN @ ELSE desired]
           /\ dev_disabled' = IF called /\ ~fail THEN [dev_disabled EXCEPT ![p] = desired]
                              ELSE dev_disabled
           /\ actions' = IF disabled = "none" THEN actions
                         ELSE [actions EXCEPT ![p] = add_actions(@, <<kind>>, now)]
           /\ obs' = [q \in DOMAIN peer |->
                        IF q = p
                        THEN [idle_obs EXCEPT
                                !.status = IF called /\ fail THEN "manual_failed" ELSE "manual",
                                !.calls = IF called THEN <<[disabled |-> desired, ok |-> ~fail]>>
                                          ELSE <<>>,
                                !.logged = IF disabled = "none" THEN <<>> ELSE <<kind>>]
                        ELSE idle_obs]
    /\ now' = now + 1
    /\ ops' = ops + 1
    /\ UNCHANGED <<usage_sample, usage_daily, usage_monthly, quota, valid_from,
                   valid_until, hist, sched, session,
                   settings_kv, settings>>

\* PATCH /peers/{id} (routes.py 886-915); fail: set_peer_disabled raises
update_peer(p, selected, disabled, fail) ==
    /\ ops < MaxOps
    /\ disabled # "none" \/ selected # "none"
    /\ LET row == peer[p]
           desired == (disabled = "true")
           called == disabled # "none" /\ row.ros_id # ""
           kind == IF desired THEN "manual_disable" ELSE "manual_enable"
       IN  IF called /\ fail
           THEN \* HTTPException 502: the session is dropped without commit
                /\ obs' = [q \in DOMAIN peer |->
                            IF q = p
                            THEN [idle_obs EXCEPT !.status = "manual_failed",
                                    !.calls = <<[disabled |-> desired, ok |-> FALSE]>>]
                            ELSE idle_obs]
                /\ UNCHANGED <<peer, actions, dev_disabled>>
           ELSE /\ peer' = [peer EXCEPT
                             ![p].selected = IF selected = "none" THEN @ ELSE (selected = "true"),
                             ![p].disabled = IF disabled = "none" THEN @ ELSE desired]
                /\ dev_disabled' = IF called THEN [dev_disabled EXCEPT ![p] = desired]
                                   ELSE dev_disabled
                /\ actions' = IF disabled = "none" THEN actions
                              ELSE [actions EXCEPT ![p] = add_actions(@, <<kind>>, now)]
                /\ obs' = [q \in DOMAIN peer |->
                            IF q = p
                            THEN [idle_obs EXCEPT !.status = "manual",
                                    !.calls = IF called THEN <<[disabled |-> desired, ok |-> TRUE]>>
                                              ELSE <<>>,
                                    !.logged = IF disabled = "none" THEN <<>> ELSE <<kind>>]
                            ELSE idle_obs]
    /\ now' = now + 1
    /\ ops' = ops + 1
    /\ UNCHANGED <<usage_sample, usage_daily, usage_monthly, quota, valid_from,
                   valid_until, hist, sched, session,
                   settings_kv, settings>>

\* a table without the row of p
without_row(tbl, p) == [q \in (DOMAIN tbl) \ {p} |-> tbl[q]]

remove_ok == [remove |-> TRUE, ok |-> TRUE]
remove_raised == [remove |-> TRUE, ok |-> FALSE]

delete_peer_despite_failure(p, skip_router, router_row, fail) ==
    /\ ops < MaxOps
    /\ p \in DOMAIN peer
    /\ LET attempted == router_row /\ peer[p].ros_id # "" /\ ~skip_router
       IN  /\ peer' = without_row(peer, p)
           /\ dev_disabled' = IF attempted /\ ~fail THEN without_row(dev_disabled, p)
                              ELSE dev_disabled
           /\ obs' = [q \in DOMAIN obs |->
                        IF q = p
                        THEN [idle_obs EXCEPT !.status = "deleted",
                                !.calls = IF attempted
                                          THEN <<IF fail THEN remove_raised ELSE remove_ok>>
                                          ELSE <<>>]
                        ELSE idle_obs]
    /\ ops' = ops + 1
    /\ UNCHANGED <<usage_sample, usage_daily, usage_monthly, quota, valid_from,
                   valid_until, actions, now, hist, sched, session,
                   settings_kv, settings>>

\* DELETE /peers/{id} (routes.py 918-938); router_row: the Router row of the
\* peer exists; fail: remove_wireguard_peer raises. The peer's entry on the
\* router is its entry in dev_disabled.
delete_peer(p, skip_router, router_row, fail) ==
    /\ ops < MaxOps
    /\ p \in DOMAIN peer
    /\ LET attempted == router_row /\ peer[p].ros_id # "" /\ ~skip_router
       IN  IF attempted /\ fail
           THEN \* HTTPException 502 before db.delete(row)
                /\ obs' = [q \in DOMAIN obs |->
                            IF q = p
                            THEN [idle_obs EXCEPT !.status = "delete_failed",
                                    !.calls = <<remove_raised>>]
                            ELSE idle_obs]
                /\ UNCHANGED <<peer, dev_disabled>>
           ELSE /\ peer' = without_row(peer, p)
                /\ dev_disabled' = IF attempted THEN without_row(dev_disabled, p)
                                   ELSE dev_disabled
                /\ obs' = [q \in DOMAIN obs |->
                            IF q = p
                            THEN [idle_obs EXCEPT !.status = "deleted",
                                    !.calls = IF attempted THEN <<remove_ok>> ELSE <<>>]
                            ELSE idle_obs]
    /\ ops' = ops + 1
    /\ UNCHANGED <<usage_sample, usage_daily, usage_monthly, quota, valid_from,
                   valid_until, actions, now, hist, sched, session,
                   settings_kv, settings>>

reconcile_desired_quota_only(q, monthly, daily, vf, vu, t) ==
    LET used == month_total_bytes(monthly, daily, month_key(t))
        over_quota == q # <<>> /\ q[1] > 0 /\ used >= q[1]
    IN  [over_quota |-> over_quota, outside_window |-> FALSE,
         desired_disabled |-> over_quota]

\* routes.py 1039-1087: the window bounds are parsed as in the cycle, the
\* usage is the monthly row when it exists and the sum of the month's daily
\* rows otherwise
reconcile_desired(q, monthly, daily, vf, vu, t) ==
    LET window_start == parse_bound(vf)
        window_end == parse_bound(vu)
        inside_window == /\ ~(window_start # <<>> /\ t < window_start[1])
                         /\ ~(window_end # <<>> /\ t > window_end[1])
        used == IF month_key(t) \in DOMAIN monthly
                THEN monthly[month_key(t)].rx + monthly[month_key(t)].tx
                ELSE SumBytes(daily, {d \in DOMAIN daily : day_in_month(d, month_key(t))})
        over_quota == q # <<>> /\ q[1] > 0 /\ used >= q[1]
        outside_window == (window_start # <<>> \/ window_end # <<>>) /\ ~inside_window
    IN  [over_quota |-> over_quota, outside_window |-> outside_window,
         desired_disabled |-> over_quota \/ outside_window]

\* routes.py 1098-1107
reconcile_kind(w, q) ==
    IF w.desired_disabled
    THEN IF w.over_quota THEN "quota_disable" ELSE "window_disable"
    ELSE IF ~w.over_quota /\ (q = <<>> \/ q[1] = 0) THEN "quota_enable"
         ELSE "window_enable"

\* POST /peers/{id}/reconcile (routes.py 1023-1113); fail: set_peer_disabled
\* raises
reconcile_peer(p, fail) ==
    /\ ops < MaxOps
    /\ LET w == reconcile_desired(quota[p], usage_monthly[p], usage_daily[p],
                                  valid_from[p], valid_until[p], now)
           changed == w.desired_disabled # peer[p].disabled
           called == changed /\ peer[p].ros_id # ""
           kind == reconcile_kind(w, quota[p])
       IN  IF called /\ fail
           THEN \* HTTPException 502: nothing is committed
                /\ obs' = [q \in DOMAIN peer |->
                            IF q = p
                            THEN [idle_obs EXCEPT !.status = "reconcile_failed",
                                    !.calls = <<[disabled |-> w.desired_disabled,
                                                 ok |-> FALSE]>>]
                            ELSE idle_obs]
                /\ UNCHANGED <<peer, actions, dev_disabled>>
           ELSE /\ peer' = [peer EXCEPT ![p].disabled = w.desired_disabled]
                /\ dev_disabled' = IF called
                                   THEN [dev_disabled EXCEPT ![p] = w.desired_disabled]
                                   ELSE dev_disabled
                /\ actions' = IF changed
                              THEN [actions EXCEPT ![p] = add_actions(@, <<kind>>, now)]
                              ELSE actions
                /\ obs' = [q \in DOMAIN peer |->
                            IF q = p
                            THEN [idle_obs EXCEPT !.status = "reconcile",
                                    !.calls = IF called
                                              THEN <<[disabled |-> w.desired_disabled,
                                                      ok |-> TRUE]>>
                                              ELSE <<>>,
                                    !.logged = IF changed THEN <<kind>> ELSE <<>>]
                            ELSE idle_obs]
    /\ now' = now + 1
    /\ ops' = ops + 1
    /\ UNCHANGED <<usage_sample, usage_daily, usage_monthly, quota, valid_from,
                   valid_until, hist, sched, session,
                   settings_kv, settings>>

reset_peer_metrics_keep_samples(p) ==
    /\ usage_daily' = [usage_daily EXCEPT ![p] = <<>>]
    /\ usage_monthly' = [usage_monthly EXCEPT ![p] = <<>>]
    /\ UNCHANGED <<peer, usage_sample, quota, valid_from, valid_until, actions,
                   dev_disabled, now, ops, obs, hist, sched, session,
                   settings_kv, settings>>

reset_peer_metrics_keep_monthly(p) ==
    /\ usage_sample' = [usage_sample EXCEPT ![p] = <<>>]
    /\ usage_daily' = [usage_daily EXCEPT ![p] = <<>>]
    /\ UNCHANGED <<peer, usage_monthly, quota, valid_from, valid_until, actions,
                   dev_disabled, now, ops, obs, hist, sched, session,
                   settings_kv, settings>>

\* POST /peers/{id}/reset_metrics (routes.py 1205-1220)
reset_peer_metrics(p) ==
    /\ usage_sample' = [usage_sample EXCEPT ![p] = <<>>]
    /\ usage_daily' = [usage_daily EXCEPT ![p] = <<>>]
    /\ usage_monthly' = [usage_monthly EXCEPT ![p] = <<>>]
    /\ UNCHANGED <<peer, quota, valid_from, valid_until, actions, dev_disabled, now, ops, obs, hist,
                   sched, session,
                   settings_kv, settings>>

\* POST /admin/purge_usage (routes.py 1522-1534)
purge_usage ==
    /\ usage_sample' = [p \in DOMAIN peer |-> <<>>]
    /\ usage_daily' = [p \in DOMAIN peer |-> <<>>]
    /\ usage_monthly' = [p \in DOMAIN peer |-> <<>>]
    /\ UNCHANGED <<peer, quota, valid_from, valid_until, actions, dev_disabled, now, ops, obs, hist,
                   sched, session,
                   settings_kv, settings>>

\* a field of QuotaUpdateDTO: absent (None), "" or a text
keep_dto == [op |-> "keep", v |-> [iso |-> TRUE, t |-> 0]]
clear_dto == [op |-> "clear", v |-> [iso |-> TRUE, t |-> 0]]
KeepClearDtos == {keep_dto, clear_dto}

KvDtos(vals) == KeepClearDtos \cup [op : {"set"}, v : vals]

\* valid_from, valid_until of QuotaUpdateDTO
FromDtos == KvDtos(FromVals)
UntilDtos == KvDtos(UntilVals)

\* monthly_limit_bytes of QuotaUpdateDTO: <<>> (None) or <<n>>
LimitDtos == {<<>>} \cup {<<n>> : n \in LimitVals}

patch_kv(kv, dto) ==
    IF dto.op = "keep" THEN kv
    ELSE IF dto.op = "clear" THEN <<>>
    ELSE <<dto.v>>

\* PATCH /peers/{id}/quota (routes.py 1264-1294); limit: <<>> (None) or <<n>>
patch_peer_quota(p, limit, vf, vu) ==
    /\ quota' = [quota EXCEPT ![p] = IF limit # <<>> THEN limit
                                     ELSE IF @ = <<>> THEN <<0>> ELSE @]
    /\ valid_from' = [valid_from EXCEPT ![p] = patch_kv(@, vf)]
    /\ valid_until' = [valid_until EXCEPT ![p] = patch_kv(@, vu)]
    /\ UNCHANGED <<peer, usage_sample, usage_daily, usage_monthly, actions,
                   dev_disabled, now, ops, obs, hist, sched, session,
                   settings_kv, settings>>

\* GET /peers/{id}/quota (routes.py 1244-1247): used_rx + used_tx at time t
get_peer_quota_used(p, t) ==
    SumBytes(usage_daily[p], {d \in DOMAIN usage_daily[p] : day_in_month(d, month_key(t))})

\* what the router lists for one peer when the API asks it
LiveInputs ==
    [hit : {"unreachable", "missing"}, ros_id : {""}, name : {""},
     allowed_address : {""}]
    \cup
    [hit : {"found"}, ros_id : RosIds, name : {""}, allowed_address : {""}]

import_obs == [idle_obs EXCEPT !.status = "import"]

\* POST /routers/{id}/peers/import (routes.py 594-644) with one item that
\* names the existing peer p: the row is synced to the router's entry lp
import_peers(p, selected, lp) ==
    /\ lp.hit = "found"
    /\ peer' = [peer EXCEPT ![p] =
                  [@ EXCEPT !.selected = selected,
                            !.ros_id = IF lp.ros_id # "" THEN lp.ros_id ELSE @,
                            !.name = lp.name,
                            !.allowed_address = lp.allowed_address,
                            !.disabled = dev_disabled[p]]]
    /\ obs' = [q \in DOMAIN peer |-> IF q = p THEN import_obs ELSE idle_obs]
    /\ UNCHANGED <<usage_sample, usage_daily, usage_monthly, quota, valid_from,
                   valid_until, actions, dev_disabled, now, ops, hist, sched, session,
                   settings_kv, settings>>

\* sync_router for one existing row (routes.py 780-805 and 838-853)
sync_row(p, lp, t) ==
    IF lp.hit = "no_interface"
    THEN \* line 839: the interface of the row is not in ifaces
         [peer |-> peer[p], logged |-> <<>>]
    ELSE IF lp.hit = "missing"
    THEN IF peer[p].selected
         THEN [peer |-> [peer[p] EXCEPT !.selected = FALSE],
               logged |-> <<"router_missing">>]
         ELSE [peer |-> peer[p], logged |-> <<>>]
    ELSE LET ext == peer[p].disabled # dev_disabled[p]
         IN  [peer |-> [peer[p] EXCEPT
                          !.ros_id = IF lp.ros_id # "" THEN lp.ros_id ELSE @,
                          !.name = lp.name,
                          !.allowed_address = lp.allowed_address,
                          !.disabled = dev_disabled[p]],
              logged |-> IF ext
                         THEN <<IF dev_disabled[p] THEN "router_disable"
                                ELSE "router_enable">>
                         ELSE <<>>]

\* no Action row of the peer
no_actions == [ts |-> 0, last |-> <<>>]

\* what the sync found for an existing row
sync_status(hit) ==
    IF hit = "missing" THEN "sync_missing"
    ELSE IF hit = "no_interface" THEN "sync_no_interface"
    ELSE "sync"

\* a table with a row of value v for every id of ids that has none
with_rows(tbl, ids, v) ==
    [q \in (DOMAIN tbl) \cup ids |-> IF q \in DOMAIN tbl THEN tbl[q] ELSE v]

\* the entries of peers the router lists and the store does not hold
NewLive == [ros_id : {"*1"}, disabled : BOOLEAN]
NoNewIds == {}

\* lines 806-835: the row and the Action of a discovered peer
discovered_peer(lp) ==
    [router_id |-> 1, ros_id |-> lp.ros_id, name |-> "", allowed_address |-> "",
     disabled |-> lp.disabled, selected |-> FALSE]

discovered_obs == [idle_obs EXCEPT !.status = "sync_discovered",
                                   !.logged = <<"router_discovered">>]

\* POST /routers/{id}/sync (routes.py 749-861); inputs: what the router lists
\* for the rows of the store; new_ids: the peers it may list that have no
\* row.  A failing list_wireguard_interfaces or list_wireguard_peers ends
\* the request with 502 before the commit.
sync_router(inputs, new_ids) ==
    /\ ops < MaxOps
    /\ \E inp \in [DOMAIN peer -> inputs], ids \in SUBSET (new_ids \ DOMAIN peer) :
        \E lps \in [ids -> NewLive] :
          IF \E q \in DOMAIN peer : inp[q].hit = "unreachable"
          THEN /\ obs' = [q \in DOMAIN peer |-> [idle_obs EXCEPT !.status = "sync_failed"]]
               /\ UNCHANGED <<peer, actions, usage_sample, usage_daily, usage_monthly,
                              quota, valid_from, valid_until, dev_disabled, hist>>
          ELSE LET res == [q \in DOMAIN peer |-> sync_row(q, inp[q], now)]
               IN  /\ peer' = [q \in (DOMAIN peer) \cup ids |->
                                 IF q \in ids THEN discovered_peer(lps[q])
                                 ELSE res[q].peer]
                   /\ actions' = [q \in (DOMAIN peer) \cup ids |->
                                    IF q \in ids
                                    THEN add_actions(no_actions, <<"router_discovered">>, now)
                                    ELSE add_actions(actions[q], res[q].logged, now)]
                   /\ obs' = [q \in (DOMAIN peer) \cup ids |->
                                IF q \in ids THEN discovered_obs
                                ELSE [idle_obs EXCEPT !.status = sync_status(inp[q].hit),
                                                      !.logged = res[q].logged]]
                   /\ dev_disabled' = [q \in (DOMAIN dev_disabled) \cup ids |->
                                         IF q \in ids THEN lps[q].disabled
                                         ELSE dev_disabled[q]]
                   /\ usage_sample' = with_rows(usage_sample, ids, <<>>)
                   /\ usage_daily' = with_rows(usage_daily, ids, <<>>)
                   /\ usage_monthly' = with_rows(usage_monthly, ids, <<>>)
                   /\ quota' = with_rows(quota, ids, <<>>)
                   /\ valid_from' = with_rows(valid_from, ids, <<>>)
                   /\ valid_until' = with_rows(valid_until, ids, <<>>)
                   /\ hist' = with_rows(hist, ids, no_hist)
    /\ now' = now + 1
    /\ ops' = ops + 1
    /\ UNCHANGED <<sched, session,
                   settings_kv, settings>>

\* ---- scheduler control (scheduler.py 321-361) -------------------------------
\* ensure_scheduler() of the startup hook (main.py 48); seconds: the interval
\* read at lines 327-332
ensure_scheduler(seconds) ==
    /\ sched' = IF ~sched.started
                THEN [started |-> TRUE, starts |-> sched.starts + 1,
                      jobs |-> <<new_job(seconds, now)>>]
                ELSE sched
    /\ UNCHANGED <<peer, usage_sample, usage_daily, usage_monthly, quota,
                   valid_from, valid_until, actions, dev_disabled, now, ops, obs,
                   hist, session,
                   settings_kv, settings>>

update_scheduler_interval_add_job(s, seconds, t) ==
    IF ~s.started \/ seconds <= 0 THEN s
    ELSE [s EXCEPT !.jobs = Append(@, new_job(seconds, t))]

update_scheduler_interval_unguarded(s, seconds, t) ==
    IF ~s.started THEN s
    ELSE IF s.jobs # <<>>
         THEN [s EXCEPT !.jobs[1].interval = seconds,
                        !.jobs[1].next = t + seconds,
                        !.jobs[1].since = t]
         ELSE [s EXCEPT !.jobs = <<new_job(seconds, t)>>]

\* scheduler.py 346-361: reschedule_job("polling-job", trigger) replaces the
\* trigger of the job and computes its next run time from the time of the
\* call; when the job does not exist, the job is added
update_scheduler_interval(s, seconds, t) ==
    IF ~s.started \/ seconds <= 0 THEN s
    ELSE IF s.jobs # <<>>
         THEN [s EXCEPT !.jobs[1].interval = seconds,
                        !.jobs[1].next = t + seconds,
                        !.jobs[1].since = t]
         ELSE [s EXCEPT !.jobs = <<new_job(seconds, t)>>]

\* PUT /settings (routes.py 289-332) with poll_interval_seconds = seconds:
\* the value is persisted as str(seconds) (line 294), assigned to the settings
\* object (line 320) and handed to update_scheduler_interval (line 327)
update_settings(seconds) ==
    /\ settings_kv' = <<str(seconds)>>
    /\ settings' = seconds
    /\ sched' = update_scheduler_interval(sched, seconds, now)
    /\ UNCHANGED <<peer, usage_sample, usage_daily, usage_monthly, quota,
                   valid_from, valid_until, actions, dev_disabled, now, ops, obs,
                   hist, session>>

\* the run time of job j has come: the scheduler starts an execution of
\* _poll_once unless max_instances executions of the job are still running
fire(j) ==
    /\ sched.started
    /\ j \in 1..Len(sched.jobs)
    /\ sched.jobs[j].next <= now
    /\ ops < MaxOps
    /\ sched' = [sched EXCEPT
                   !.jobs[j] =
                      IF @.running < max_instances
                      THEN [@ EXCEPT !.next = @ + sched.jobs[j].interval,
                                     !.running = @ + 1,
                                     !.begun = now]
                      ELSE [@ EXCEPT !.next = @ + sched.jobs[j].interval,
                                     !.missed = @ + 1]]
    /\ UNCHANGED <<peer, usage_sample, usage_daily, usage_monthly, quota,
                   valid_from, valid_until, actions, dev_disabled, now, ops, obs,
                   hist, session,
                   settings_kv, settings>>

\* a second passes; a job whose run time has come is fired first
tick ==
    /\ now < MaxNow
    /\ \A j \in 1..Len(sched.jobs) : sched.jobs[j].next > now
    /\ now' = now + 1
    /\ UNCHANGED <<peer, usage_sample, usage_daily, usage_monthly, quota,
                   valid_from, valid_until, actions, dev_disabled, ops, obs, hist,
                   sched, session,
                   settings_kv, settings>>

\* ---- environment ----------------------------------------------------------
\* an administrator enables or disables the peer on the router itself
router_toggle(p) ==
    /\ dev_disabled' = [dev_disabled EXCEPT ![p] = ~@]
    /\ UNCHANGED <<peer, usage_sample, usage_daily, usage_monthly, quota,
                   valid_from, valid_until, actions, now, ops, obs, hist, sched, session,
                   settings_kv, settings>>

\* ---- specification --------------------------------------------------------
\* a fresh store holding one imported peer (import_peers, routes.py 630-641)
InitPeers == {1}

InitStore(ids, ros_ids) ==
    /\ peer \in [ids -> [router_id : {1}, ros_id : ros_ids, name : {""},
                         allowed_address : {""},
                         disabled : {FALSE}, selected : {TRUE}]]
    /\ usage_sample = [p \in ids |-> <<>>]
    /\ usage_daily = [p \in ids |-> <<>>]
    /\ usage_monthly = [p \in ids |-> <<>>]
    /\ quota = [p \in ids |-> <<>>]
    /\ valid_from = [p \in ids |-> <<>>]
    /\ valid_until = [p \in ids |-> <<>>]
    /\ actions = [p \in ids |-> no_actions]
    /\ dev_disabled = [p \in ids |-> FALSE]
    /\ now \in StartTimes
    /\ ops = 0
    /\ obs = [p \in ids |-> idle_obs]
    /\ sched = no_scheduler
    /\ session = no_session
    /\ settings_kv = <<>>
    /\ settings = poll_interval_seconds

Init ==
    /\ InitStore(InitPeers, RosIds)
    /\ hist = [p \in InitPeers |-> no_hist]

\* Spec: the policy engine with the operations that share its state
Next ==
    \/ poll_once(PolicyInputs)
    \/ \E p \in DOMAIN peer, d \in DtoBools, f \in BOOLEAN :
          update_peer(p, "none", d, f)
    \/ \E p \in DOMAIN peer : reset_peer_metrics(p)
    \/ \E p \in DOMAIN peer,
          l \in LimitDtos,
          vf \in FromDtos, vu \in UntilDtos :
          patch_peer_quota(p, l, vf, vu)
    \/ \E p \in DOMAIN peer : router_toggle(p)

Spec == Init /\ [][Next]_vars

\* SpecUsage: metering only (no quota, no access window)
NextUsage ==
    \/ poll_once(UsageInputs)
    \/ \E p \in DOMAIN peer : reset_peer_metrics(p)
    \/ purge_usage

SpecUsage == Init /\ [][NextUsage]_vars

\* SpecCycles: polling cycles only, with the history of the deltas kept
kept_hist == [no_hist EXCEPT !.on = TRUE]

InitCycles ==
    /\ InitStore(InitPeers, RosIds)
    /\ hist = [p \in InitPeers |-> kept_hist]

NextCycles == poll_once(CycleInputs)

SpecCycles == InitCycles /\ [][NextCycles]_vars

\* SpecPair: two peers of one router interface, polled in the same cycles
PairPeers == {1, 2}

InitPair ==
    /\ InitStore(PairPeers, {"*1"})
    /\ hist = [p \in PairPeers |-> no_hist]

PairInputs ==
    [hit : {"unreachable"}, ros_id : {""}, name : {""}, allowed_address : {""},
     rx : {0}, tx : {0}, fails : {{}}, tie : {1}]
    \cup
    [hit : {"found"}, ros_id : {"*1"}, name : {""}, allowed_address : {""},
     rx : {1, 3}, tx : {0}, fails : {{}, {1}}, tie : {1}]

NextPair ==
    \/ poll_once(PairInputs)
    \/ \E p \in DOMAIN peer, vf \in FromVals :
          patch_peer_quota(p, <<2>>, [op |-> "set", v |-> vf], keep_dto)

SpecPair == InitPair /\ [][NextPair]_vars

\* SpecWindow: one peer with an access window and a quota
WindowInputs ==
    [hit : {"unreachable"}, ros_id : {""}, name : {""}, allowed_address : {""},
     rx : {0}, tx : {0}, fails : {{}}, tie : {1}]
    \cup
    [hit : {"found"}, ros_id : RosIds, name : {""}, allowed_address : {""},
     rx : RxVals, tx : {0}, fails : {{}, {1}}, tie : {1, 2}]

WindowLimitDtos == {<<>>, <<2>>}
WindowFromDtos == KvDtos(WindowFromVals)
WindowUntilDtos == KvDtos(WindowUntilVals)

NextWindow ==
    \/ poll_once(WindowInputs)
    \/ \E p \in DOMAIN peer, l \in WindowLimitDtos,
          vf \in WindowFromDtos, vu \in WindowUntilDtos :
          patch_peer_quota(p, l, vf, vu)

SpecWindow == Init /\ [][NextWindow]_vars

\* SpecGroups: two peers on two routers, so every cycle polls two
\* (router_id, interface) groups; since the import an administrator may have
\* disabled a peer on its router
GroupPeers == {1, 2}

\* the peer row of the group of router p
group_peer(p) ==
    [router_id |-> p, ros_id |-> "", name |-> "", allowed_address |-> "",
     disabled |-> FALSE, selected |-> TRUE]

InitGroups ==
    /\ peer = [p \in GroupPeers |-> group_peer(p)]
    /\ usage_sample = [p \in GroupPeers |-> <<>>]
    /\ usage_daily = [p \in GroupPeers |-> <<>>]
    /\ usage_monthly = [p \in GroupPeers |-> <<>>]
    /\ quota = [p \in GroupPeers |-> <<>>]
    /\ valid_from = [p \in GroupPeers |-> <<>>]
    /\ valid_until = [p \in GroupPeers |-> <<>>]
    /\ actions = [p \in GroupPeers |-> no_actions]
    /\ dev_disabled \in [GroupPeers -> BOOLEAN]
    /\ now \in StartTimes
    /\ ops = 0
    /\ obs = [p \in GroupPeers |-> idle_obs]
    /\ hist = [p \in GroupPeers |-> kept_hist]
    /\ sched = no_scheduler
    /\ session = no_session
    /\ settings_kv = <<>>
    /\ settings = poll_interval_seconds

GroupInputs ==
    MissInputs
    \cup
    [hit : {"found"}, ros_id : {"*1"}, name : {"laptop"},
     allowed_address : {"10.0.0.2/32"}, rx : RxVals, tx : {0}, fails : {{}},
     tie : {1}]

NextGroups ==
    \/ poll_once(GroupInputs)
    \/ \E p \in DOMAIN peer : update_peer(p, "true", "none", FALSE)

SpecGroups == InitGroups /\ [][NextGroups]_vars

\* SpecImport: the operations that write peer.disabled
ImportInputs ==
    [hit : {"unreachable"}, ros_id : {""}, name : {""}, allowed_address : {""},
     rx : {0}, tx : {0}, fails : {{}}, tie : {1}]
    \cup
    [hit : {"found"}, ros_id : RosIds, name : {""}, allowed_address : {""},
     rx : {1}, tx : {0}, fails : {{}}, tie : {1}]

NextImport ==
    \/ poll_once(ImportInputs)
    \/ \E p \in DOMAIN peer, d \in DtoBools, f \in BOOLEAN :
          update_peer(p, "none", d, f)
    \/ \E p \in DOMAIN peer, sel \in BOOLEAN, lp \in LiveInputs :
          import_peers(p, sel, lp)
    \/ sync_router(LiveInputs, NoNewIds)
    \/ \E p \in DOMAIN peer : router_toggle(p)

SpecImport == Init /\ [][NextImport]_vars

\* SpecSched: the scheduler runs the cycles
SchedInputs ==
    [hit : {"unreachable"}, ros_id : {""}, name : {""}, allowed_address : {""},
     rx : {0}, tx : {0}, fails : {{}}, tie : {1}]
    \cup
    [hit : {"found"}, ros_id : {"*1"}, name : {""}, allowed_address : {""},
     rx : {1}, tx : {0}, fails : {{}}, tie : {1}]

JobIndexes == {1, 2}

InitSched ==
    /\ InitStore(InitPeers, {"*1"})
    /\ hist = [p \in InitPeers |-> no_hist]

\* the execution of _poll_once the scheduler started runs to its commit
job_run ==
    /\ running_jobs(sched) # {}
    /\ poll_once(SchedInputs)

NextSched ==
    \/ \E seconds \in StartIntervals : ensure_scheduler(seconds)
    \/ \E seconds \in DtoIntervals : update_settings(seconds)
    \/ \E j \in JobIndexes : fire(j)
    \/ tick
    \/ job_run

SpecSched == InitSched /\ [][NextSched]_vars

\* SpecSchedFair: an execution the executor has started is not cancelled; it
\* runs until _poll_once returns
SpecSchedFair == SpecSched /\ WF_vars(job_run)

\* SpecAtomic: the cycles of two peers of one router, step by step
AtomicInputs ==
    [hit : {"unreachable"}, ros_id : {""}, name : {""}, allowed_address : {""},
     rx : {0}, tx : {0}, fails : {{}}, tie : {1}]
    \cup
    [hit : {"found"}, ros_id : {"*1"}, name : {""}, allowed_address : {""},
     rx : RxVals, tx : {0}, fails : {{}}, tie : {1}]

InitAtomic ==
    /\ InitStore(PairPeers, {"*1"})
    /\ hist = [p \in PairPeers |-> kept_hist]

NextAtomic ==
    \/ begin_cycle(AtomicInputs)
    \/ \E p \in DOMAIN peer : step_peer(p)
    \/ commit_cycle
    \/ abort_cycle

SpecAtomic == InitAtomic /\ [][NextAtomic]_vars

\* ---- properties -----------------------------------------------------------
Count(seq, S) == Cardinality({i \in 1..Len(seq) : seq[i] \in S})

\* the step is a polling cycle that found peer p in its router's list
CycleFound(p) == ops' = ops + 1 /\ obs'[p].status = "found"

\* set_peer_disabled calls of that cycle for p, by argument
DisableCalls(p) == {i \in 1..Len(obs'[p].calls) : obs'[p].calls[i].disabled}
EnableCalls(p) == {i \in 1..Len(obs'[p].calls) : ~obs'[p].calls[i].disabled}

\* the peer's usage of the month of time t, from the stored daily rows
MonthUsed(daily, t) ==
    SumBytes(daily, {d \in DOMAIN daily : day_in_month(d, month_key(t))})

OverQuotaAt(q, daily, t) == q # <<>> /\ q[1] > 0 /\ MonthUsed(daily, t) >= q[1]

InsideAt(vf, vu, t) ==
    /\ (vf # <<>> /\ vf[1].iso) => t >= vf[1].t
    /\ (vu # <<>> /\ vu[1].iso) => t <= vu[1].t

\* C1: a cycle re-enables a peer (set_peer_disabled(false), or the direct
\* flip of a peer without ros_id) only if the most recent Action of the peer
\* is quota_disable or window_disable; a disabled peer whose most recent
\* Actions hold manual_disable or router_disable, and that the router
\* reports disabled, is still disabled after the cycle.
C1_ReenableGating ==
    [][\A p \in DOMAIN peer :
         CycleFound(p) =>
           /\ (EnableCalls(p) # {}
                  \/ Count(obs'[p].logged, AutoEnableKinds) > 0)
                => /\ actions[p].last # <<>>
                   /\ actions[p].last[Len(actions[p].last)]
                         \in AutoDisableKinds
           /\ (/\ peer[p].disabled
               /\ dev_disabled[p]
               /\ Count(actions[p].last, ExternalDisableKinds) > 0)
                => /\ peer'[p].disabled
                   /\ dev_disabled'[p]
                   /\ EnableCalls(p) = {}]_vars

\* a cycle has polled a manually disabled peer that is under quota and
\* inside its window, and left it disabled
C1_Witness ==
    \E p \in DOMAIN peer :
        /\ obs[p].status = "found"
        /\ actions[p].last = <<"manual_disable">>
        /\ peer[p].disabled
        /\ dev_disabled[p]
        /\ ~OverQuotaAt(quota[p], usage_daily[p], now - 1)
        /\ InsideAt(valid_from[p], valid_until[p], now - 1)

IsPolicyKind(k) == k \in AllPolicyKinds

\* calls of that cycle for p that raised
FailedCalls(p) == {i \in 1..Len(obs'[p].calls) : ~obs'[p].calls[i].ok}

\* C2: when a set_peer_disabled call of a cycle raises, peer.disabled keeps
\* the value it had before the call, exactly one Action of the intended kind
\* suffixed with _failed is added for that call, and the cycle still commits:
\* the sample and the Action of this peer, and the sample of every other peer
\* found in the cycle, are stored with the cycle's timestamp.
C2_PolicyActionFailure ==
    [][\A p \in DOMAIN peer :
         (CycleFound(p) /\ FailedCalls(p) # {}) =>
            LET c == obs'[p].calls
                lg == SelectSeq(obs'[p].logged, IsPolicyKind)
            IN  /\ Len(lg) = Len(c)
                /\ \A i \in FailedCalls(p) :
                      /\ lg[i] \in FailedKinds
                      /\ c[i].disabled <=> lg[i] \in DisableFailedKinds
                      /\ lg[i] = "quota_disable_failed"
                            => OverQuotaAt(quota[p], usage_daily'[p], now)
                      /\ lg[i] = "window_disable_failed"
                            => ~InsideAt(valid_from[p], valid_until[p], now)
                      /\ lg[i] = "quota_enable_failed"
                            => Count(actions[p].last, {"quota_disable"}) > 0
                      /\ lg[i] = "window_enable_failed"
                            => Count(actions[p].last, {"window_disable"}) > 0
                      /\ i < Len(c) => c[i + 1].disabled = c[i].disabled
                      /\ i = Len(c) => peer'[p].disabled = ~c[i].disabled
                /\ FailedCalls(p) = 1..Len(c)
                      => /\ peer'[p].disabled = dev_disabled[p]
                         /\ dev_disabled'[p] = dev_disabled[p]
                /\ Count(obs'[p].logged, FailedKinds) = Cardinality(FailedCalls(p))
                /\ actions'[p] = [ts |-> now, last |-> obs'[p].logged]
                /\ \A q \in DOMAIN peer :
                      obs'[q].status = "found"
                          => /\ usage_sample'[q] # <<>>
                             /\ usage_sample'[q][1].ts = now]_vars

\* one cycle polled both peers: the call for peer 1 raised and left it
\* enabled, the call for peer 2 went through and disabled it
C2_Witness ==
    /\ DOMAIN peer = PairPeers
    /\ obs[1].status = "found"
    /\ obs[1].calls = <<disable_raised>>
    /\ ~peer[1].disabled
    /\ Count(actions[1].last, FailedKinds) = 1
    /\ obs[2].status = "found"
    /\ obs[2].calls = <<disable_ok>>
    /\ peer[2].disabled
    /\ usage_sample[2][1].ts = now - 1

\* C3: after a failed auto re-enable (the most recent Actions of the peer hold
\* quota_enable_failed or window_enable_failed), a cycle that finds the peer
\* still disabled, under quota and inside its window calls
\* set_peer_disabled(false) again.
C3_RetryFailedEnable ==
    [][\A p \in DOMAIN peer :
         (/\ CycleFound(p)
          /\ Count(actions[p].last, EnableFailedKinds) > 0
          /\ peer[p].disabled
          /\ dev_disabled[p]
          /\ ~OverQuotaAt(quota[p], usage_daily'[p], now)
          /\ InsideAt(valid_from[p], valid_until[p], now))
            => EnableCalls(p) # {}]_vars

\* C4: a cycle that finds a router-backed peer enabled while it is over quota
\* or outside its window calls set_peer_disabled(true), whatever failed
\* before; a call that succeeds is the last call of the cycle, leaves the peer
\* disabled on both sides and logs exactly one quota_disable/window_disable.
C4_RetryFailedDisable ==
    [][\A p \in DOMAIN peer :
         CycleFound(p) =>
           /\ (/\ peer'[p].ros_id # ""
               /\ ~dev_disabled[p]
               /\ \/ OverQuotaAt(quota[p], usage_daily'[p], now)
                  \/ ~InsideAt(valid_from[p], valid_until[p], now))
                => DisableCalls(p) # {}
           /\ \A i \in DisableCalls(p) :
                 obs'[p].calls[i].ok
                    => /\ i = Len(obs'[p].calls)
                       /\ peer'[p].disabled
                       /\ dev_disabled'[p]
                       /\ Count(obs'[p].logged, AutoDisableKinds) = 1
                       /\ Count(actions'[p].last, AutoDisableKinds) = 1]_vars

\* the auto-disable of an earlier cycle failed and this cycle's call succeeded
C4_Witness ==
    \E p \in DOMAIN peer :
        /\ obs[p].status = "found"
        /\ obs[p].retry
        /\ obs[p].calls = <<disable_ok>>
        /\ peer[p].disabled
        /\ dev_disabled[p]
        /\ Count(actions[p].last, AutoDisableKinds) = 1

\* ---- properties of the metering ---------------------------------------------
RECURSIVE SumSeq(_)
SumSeq(seq) == IF seq = <<>> THEN 0 ELSE seq[1] + SumSeq(Tail(seq))

Rxs(log) == [i \in 1..Len(log) |-> log[i].rx]
Txs(log) == [i \in 1..Len(log) |-> log[i].tx]
DeltaRxs(log) == [i \in 1..Len(log) |-> log[i].drx]
DeltaTxs(log) == [i \in 1..Len(log) |-> log[i].dtx]
NonDecreasing(seq) == \A i \in 2..Len(seq) : seq[i] >= seq[i - 1]

\* C5: the first poll of a peer computes the deltas 0, 0; every later poll
\* computes, for rx and tx separately, current - previous when current >=
\* previous and current otherwise; no delta is negative; the counters
\* 1000, 1200, 300 give the deltas 0, 200, 300.
C5_DeltaRule ==
    [][\A p \in DOMAIN peer :
         CycleFound(p) =>
            LET old == usage_sample[p]
                new == usage_sample'[p][1]
                o == obs'[p]
            IN  /\ old = <<>> => o.drx = 0 /\ o.dtx = 0
                /\ old # <<>> =>
                      /\ o.drx = IF new.rx >= old[1].rx THEN new.rx - old[1].rx ELSE new.rx
                      /\ o.dtx = IF new.tx >= old[1].tx THEN new.tx - old[1].tx ELSE new.tx
                /\ o.drx >= 0
                /\ o.dtx >= 0
                /\ Rxs(hist'[p].log) = <<1000, 1200, 300>>
                      => DeltaRxs(hist'[p].log) = <<0, 200, 300>>]_vars

\* three cycles read rx = 1000, 1200, 300
C5_Witness ==
    \E p \in DOMAIN peer :
        /\ Rxs(hist[p].log) = <<1000, 1200, 300>>
        /\ obs[p].drx = 300
        /\ usage_sample[p][1].rx = 300

\* C6: while the polled rx (tx) counter of a peer has never decreased, the sum
\* of the rx (tx) deltas computed so far is the counter of the last poll
\* minus the counter of the first poll, skipped cycles included.
C6_DeltaSum ==
    \A p \in DOMAIN peer :
        LET log == hist[p].log
        IN  (hist[p].on /\ log # <<>>) =>
               /\ NonDecreasing(Rxs(log))
                     => SumSeq(DeltaRxs(log)) = log[Len(log)].rx - log[1].rx
               /\ NonDecreasing(Txs(log))
                     => SumSeq(DeltaTxs(log)) = log[Len(log)].tx - log[1].tx

\* two polls with a growing counter and a skipped cycle between them
C6_Witness ==
    \E p \in DOMAIN peer :
        /\ obs[p].status = "found"
        /\ hist[p].skipped = 1
        /\ Len(hist[p].log) = 2
        /\ hist[p].log[2].rx > hist[p].log[1].rx
        /\ hist[p].log[2].tx > hist[p].log[1].tx

zero_row == [rx |-> 0, tx |-> 0]

RowOrZero(tbl, key) == IF key \in DOMAIN tbl THEN tbl[key] ELSE zero_row

\* sum of the deltas of the polls of log whose time t satisfies key_of(t) = key
RECURSIVE DeltaSum(_, _, _)
DeltaSum(log, key_of(_), key) ==
    IF log = <<>> THEN zero_row
    ELSE LET rest == DeltaSum(Tail(log), key_of, key)
         IN  IF key_of(log[1].t) = key
             THEN [rx |-> rest.rx + log[1].drx, tx |-> rest.tx + log[1].dtx]
             ELSE rest

PollTimes(log) == {log[i].t : i \in 1..Len(log)}

\* C7: after every step, each usage_daily row (0, 0 if absent) holds the sum
\* of the deltas of the polls of that UTC day and each usage_monthly row the
\* sum of the deltas of the polls of that UTC month; no step lowers or
\* removes a rollup row.
C7_RollupTotals ==
    [][\A p \in DOMAIN peer :
         LET log == hist'[p].log
         IN  /\ \A d \in DOMAIN usage_daily'[p] \cup {day_key(t) : t \in PollTimes(log)} :
                   RowOrZero(usage_daily'[p], d) = DeltaSum(log, day_key, d)
             /\ \A m \in DOMAIN usage_monthly'[p] \cup {month_key(t) : t \in PollTimes(log)} :
                   RowOrZero(usage_monthly'[p], m) = DeltaSum(log, month_key, m)
             /\ \A d \in DOMAIN usage_daily[p] :
                   /\ d \in DOMAIN usage_daily'[p]
                   /\ usage_daily'[p][d].rx >= usage_daily[p][d].rx
                   /\ usage_daily'[p][d].tx >= usage_daily[p][d].tx
             /\ \A m \in DOMAIN usage_monthly[p] :
                   /\ m \in DOMAIN usage_monthly'[p]
                   /\ usage_monthly'[p][m].rx >= usage_monthly[p][m].rx
                   /\ usage_monthly'[p][m].tx >= usage_monthly[p][m].tx]_vars

\* two polls of one month added non-zero deltas to the same monthly row
C7_Witness ==
    \E p \in DOMAIN peer :
        LET log == hist[p].log
        IN  /\ Len(log) = 3
            /\ log[2].drx > 0
            /\ log[3].drx > 0
            /\ month_key(log[2].t) = month_key(log[3].t)
            /\ day_key(log[2].t) # day_key(log[3].t)
            /\ usage_monthly[p][month_key(log[3].t)].rx = log[2].drx + log[3].drx

MonthlyTotal(monthly, m) ==
    IF m \in DOMAIN monthly THEN monthly[m].rx + monthly[m].tx ELSE 0

\* C8: for every peer and month, the usage_monthly total (rx + tx, 0 if the
\* row is absent) is the sum of rx + tx of the peer's usage_daily rows of that
\* month; the total the cycle enforces and the total get_peer_quota reports
\* are the same number.
C8_MonthlyDailyAgree ==
    \A p \in DOMAIN peer :
        /\ \A m \in DOMAIN usage_monthly[p]
                    \cup {d \div DaysPerMonth : d \in DOMAIN usage_daily[p]} :
              MonthlyTotal(usage_monthly[p], m)
                 = SumBytes(usage_daily[p],
                            {d \in DOMAIN usage_daily[p] : day_in_month(d, m)})
        /\ \A t \in {now - 1, now} :
              t >= 0 => month_total_bytes(usage_monthly[p], usage_daily[p], month_key(t))
                           = get_peer_quota_used(p, t)

\* a month with two daily rows and traffic in both
C8_Witness ==
    \E p \in DOMAIN peer : \E m \in DOMAIN usage_monthly[p] :
        /\ Cardinality({d \in DOMAIN usage_daily[p] : day_in_month(d, m)}) = 2
        /\ \A d \in DOMAIN usage_daily[p] : usage_daily[p][d].rx + usage_daily[p][d].tx > 0
        /\ MonthlyTotal(usage_monthly[p], m) > 0

\* ---- properties of the quota ------------------------------------------------
\* the quota row of p has a positive limit that the month total of the
\* stored daily rows has reached
LimitReached(q, daily, t) == q # <<>> /\ q[1] > 0 /\ MonthUsed(daily, t) >= q[1]

\* C9: a cycle attempts the quota auto-disable of a peer it finds enabled on
\* the router iff a Quota row exists with monthly_limit_bytes > 0 and the
\* month total including this cycle's delta is >= the limit: with a ros_id
\* the first call of the cycle is set_peer_disabled(true), without one the
\* flag is flipped directly; no other cycle logs quota_disable.
C9_QuotaTrigger ==
    [][\A p \in DOMAIN peer :
         CycleFound(p) =>
            LET over == LimitReached(quota[p], usage_daily'[p], now)
                lg == obs'[p].logged
                c == obs'[p].calls
                tried == Count(lg, QuotaDisableKinds) > 0
            IN  /\ tried <=> (~dev_disabled[p] /\ over)
                /\ tried =>
                      IF peer'[p].ros_id # ""
                      THEN /\ c # <<>>
                           /\ c[1].disabled
                           /\ c[1].ok <=> Count(lg, {"quota_disable"}) = 1
                      ELSE /\ c = <<>>
                           /\ peer'[p].disabled
                           /\ Count(lg, {"quota_disable"}) = 1
                /\ (quota[p] = <<>> \/ quota[p][1] = 0) => ~tried]_vars

\* a cycle disabled a peer whose month total is exactly its limit
C9_Witness ==
    \E p \in DOMAIN peer :
        /\ obs[p].status = "found"
        /\ Count(obs[p].logged, {"quota_disable"}) = 1
        /\ quota[p] # <<>>
        /\ quota[p][1] > 0
        /\ MonthUsed(usage_daily[p], now - 1) = quota[p][1]
        /\ peer[p].disabled

\* the cycle's delta takes the month total of p from below its positive limit
\* to at or above it, and the router reports p enabled
Crossing(p) ==
    /\ CycleFound(p)
    /\ ~dev_disabled[p]
    /\ quota[p] # <<>>
    /\ quota[p][1] > 0
    /\ MonthUsed(usage_daily[p], now) < quota[p][1]
    /\ MonthUsed(usage_daily'[p], now) >= quota[p][1]

\* C10 as stated: the crossing cycle issues exactly one disable and logs
\* exactly one quota_disable; a later cycle with unchanged totals that finds
\* the peer disabled on the router issues no disable call and logs no
\* quota/window Action.
C10_CrossingOnce ==
    [][\A p \in DOMAIN peer :
         /\ Crossing(p)
               => /\ Cardinality(DisableCalls(p)) <= 1
                  /\ Count(obs'[p].logged, {"quota_disable"}) = 1
         /\ (/\ CycleFound(p)
             /\ dev_disabled[p]
             /\ Count(actions[p].last, {"quota_disable"}) > 0
             /\ usage_daily'[p] = usage_daily[p])
               => /\ DisableCalls(p) = {}
                  /\ Count(obs'[p].logged, AllPolicyKinds) = 0]_vars

\* C10 amended: the crossing cycle issues exactly one disable and logs exactly
\* one quota_disable when the disable goes through (a successful call, or the
\* direct flip of a peer without ros_id); when the call raises it logs
\* quota_disable_failed and no quota_disable.  A cycle that finds the peer
\* disabled on the router while the month total is still at or above the
\* positive limit issues no call and logs no quota/window Action.
C10_CrossingOnceIfCallSucceeds ==
    [][\A p \in DOMAIN peer :
         LET c == obs'[p].calls
             lg == obs'[p].logged
         IN  /\ Crossing(p) =>
                   IF peer'[p].ros_id = ""
                   THEN /\ c = <<>>
                        /\ Count(lg, {"quota_disable"}) = 1
                        /\ peer'[p].disabled
                   ELSE IF c[1].ok
                        THEN /\ c = <<disable_ok>>
                             /\ Count(lg, {"quota_disable"}) = 1
                             /\ Count(lg, FailedKinds) = 0
                             /\ peer'[p].disabled
                        ELSE /\ Count(lg, {"quota_disable"}) = 0
                             /\ Count(lg, {"quota_disable_failed"}) = 1
             /\ (/\ CycleFound(p)
                 /\ dev_disabled[p]
                 /\ LimitReached(quota[p], usage_daily'[p], now))
                   => /\ c = <<>>
                      /\ Count(lg, AllPolicyKinds) = 0
                      /\ peer'[p].disabled]_vars

\* a cycle after the quota_disable found the peer disabled, the total
\* unchanged and at or above the limit, and did nothing
C10_Witness ==
    \E p \in DOMAIN peer :
        /\ obs[p].status = "found"
        /\ obs[p].calls = <<>>
        /\ obs[p].logged = <<>>
        /\ obs[p].drx = 0
        /\ actions[p].last = <<"quota_disable">>
        /\ actions[p].ts < now - 1
        /\ peer[p].disabled
        /\ dev_disabled[p]
        /\ LimitReached(quota[p], usage_daily[p], now - 1)

\* ---- properties of the access window ----------------------------------------
WindowDisableKinds == {"window_disable", "window_disable_failed"}

\* a bound that parses lies on the wrong side of t
OutsideAt(vf, vu, t) ==
    \/ vf # <<>> /\ vf[1].iso /\ t < vf[1].t
    \/ vu # <<>> /\ vu[1].iso /\ t > vu[1].t

\* C11 as stated: a cycle attempts the window auto-disable of a peer that is
\* still enabled iff a parsable start bound lies after now or a parsable end
\* bound lies before now; and every peer found enabled on the router and
\* outside its window is disabled by the cycle with one window_disable.
C11_WindowCheck ==
    [][\A p \in DOMAIN peer :
         CycleFound(p) =>
            LET lg == obs'[p].logged
                out == OutsideAt(valid_from[p], valid_until[p], now)
            IN  /\ Count(lg, WindowDisableKinds) > 0
                      <=> (~dev_disabled[p] /\ Count(lg, {"quota_disable"}) = 0 /\ out)
                /\ (~dev_disabled[p] /\ out)
                      => /\ peer'[p].disabled
                         /\ Count(lg, {"window_disable"}) = 1]_vars

\* C11 amended: the window auto-disable is attempted iff the peer is still
\* enabled after the quota step and a parsable start bound lies after now or
\* a parsable end bound lies before now (now equal to a bound is inside, a
\* missing or unparsable bound does not constrain, no bound means no
\* attempt).  The attempt disables the peer and logs one window_disable when
\* the peer has no ros_id or the call succeeds; when the call raises the
\* peer stays enabled and one window_disable_failed is logged.
C11_WindowCheckIfCallSucceeds ==
    [][\A p \in DOMAIN peer :
         CycleFound(p) =>
            LET lg == obs'[p].logged
                c == obs'[p].calls
                out == OutsideAt(valid_from[p], valid_until[p], now)
            IN  /\ Count(lg, WindowDisableKinds) > 0
                      <=> (~dev_disabled[p] /\ Count(lg, {"quota_disable"}) = 0 /\ out)
                /\ Count(lg, WindowDisableKinds) <= 1
                /\ Count(lg, WindowDisableKinds) > 0 =>
                      IF peer'[p].ros_id = ""
                      THEN /\ DisableCalls(p) = {}
                           /\ Count(lg, {"window_disable"}) = 1
                           /\ peer'[p].disabled
                      ELSE /\ c # <<>>
                           /\ c[Len(c)].disabled
                           /\ IF c[Len(c)].ok
                              THEN /\ Count(lg, {"window_disable"}) = 1
                                   /\ peer'[p].disabled
                                   /\ dev_disabled'[p]
                              ELSE /\ Count(lg, {"window_disable_failed"}) = 1
                                   /\ ~peer'[p].disabled
                                   /\ ~dev_disabled'[p]]_vars

\* a cycle past the end bound disabled a peer whose start bound does not parse
C11_Witness ==
    \E p \in DOMAIN peer :
        /\ obs[p].status = "found"
        /\ Count(obs[p].logged, {"window_disable"}) = 1
        /\ valid_from[p] = <<unparsable>>
        /\ valid_until[p] # <<>>
        /\ valid_until[p][1].iso
        /\ valid_until[p][1].t < now - 1
        /\ peer[p].disabled

\* ---- properties of a repeated cycle -------------------------------------------
\* the cycle polls p, a baseline sample exists, and the router reports the
\* counters of that sample, the ros_id and the disabled flag the store holds
UnchangedSnapshot(p) ==
    /\ CycleFound(p)
    /\ usage_sample[p] # <<>>
    /\ usage_sample'[p][1].rx = usage_sample[p][1].rx
    /\ usage_sample'[p][1].tx = usage_sample[p][1].tx
    /\ dev_disabled[p] = peer[p].disabled
    /\ peer'[p].ros_id = peer[p].ros_id

\* the cycle appends one sample and leaves every rollup row as it was
OnlySample(p) ==
    /\ usage_sample'[p] # <<>>
    /\ usage_sample'[p][1].ts = now
    /\ usage_sample[p][1].ts < now
    /\ usage_daily'[p] = usage_daily[p]
    /\ usage_monthly'[p] = usage_monthly[p]
    /\ obs'[p].drx = 0
    /\ obs'[p].dtx = 0

\* the policy has nothing to do for p at time now: an enabled peer is under
\* quota and inside its window; a disabled peer is over quota, outside its
\* window, or none of its most recent Actions is an auto-disable
PolicyAtRest(p) ==
    LET over == OverQuotaAt(quota[p], usage_daily[p], now)
        out == OutsideAt(valid_from[p], valid_until[p], now)
    IN  IF peer[p].disabled
        THEN over \/ out \/ Count(actions[p].last, AutoDisableKinds) = 0
        ELSE ~over /\ ~out

\* C12 as stated: a cycle against an unchanged snapshot, once a baseline
\* exists, changes no rollup, issues no set_peer_disabled call and logs no
\* Action; it only appends one sample.
C12_IdempotentNoOp ==
    [][\A p \in DOMAIN peer :
         UnchangedSnapshot(p) =>
            /\ OnlySample(p)
            /\ obs'[p].calls = <<>>
            /\ obs'[p].logged = <<>>
            /\ actions'[p] = actions[p]
            /\ peer'[p] = peer[p]]_vars

\* C12 amended: a cycle against an unchanged snapshot, once a baseline
\* exists, adds zero to every rollup, creates no rollup row and appends one
\* sample; when in addition the policy is at rest for the peer, it issues no
\* set_peer_disabled call, logs no Action and leaves the peer row as it was.
C12_IdempotentNoOpAtRest ==
    [][\A p \in DOMAIN peer :
         UnchangedSnapshot(p) =>
            /\ OnlySample(p)
            /\ PolicyAtRest(p) =>
                  /\ obs'[p].calls = <<>>
                  /\ obs'[p].logged = <<>>
                  /\ actions'[p] = actions[p]
                  /\ peer'[p] = peer[p]
                  /\ dev_disabled'[p] = dev_disabled[p]]_vars

\* a cycle read the counters of the sample before it (the rollup rows show
\* that an earlier cycle had a baseline): no delta, no call, no Action
C12_Witness ==
    \E p \in DOMAIN peer :
        /\ obs[p].status = "found"
        /\ obs[p].calls = <<>>
        /\ obs[p].logged = <<>>
        /\ obs[p].drx = 0
        /\ obs[p].dtx = 0
        /\ usage_sample[p] # <<>>
        /\ usage_sample[p][1].ts = now - 1
        /\ usage_daily[p] # <<>>

\* ---- properties of the groups of a cycle --------------------------------------
\* the step is a polling cycle
IsCycle == ops' = ops + 1 /\ \E p \in DOMAIN peer : obs'[p].status \in CycleStatuses

\* the cycle stored for q what it computed from the router's answer
Committed(q) ==
    LET o == obs'[q]
        d == day_key(now)
        m == month_key(now)
    IN  /\ usage_sample'[q] # <<>>
        /\ usage_sample'[q][1].ts = now
        /\ RowOrZero(usage_daily'[q], d).rx = RowOrZero(usage_daily[q], d).rx + o.drx
        /\ RowOrZero(usage_daily'[q], d).tx = RowOrZero(usage_daily[q], d).tx + o.dtx
        /\ RowOrZero(usage_monthly'[q], m).rx = RowOrZero(usage_monthly[q], m).rx + o.drx
        /\ RowOrZero(usage_monthly'[q], m).tx = RowOrZero(usage_monthly[q], m).tx + o.dtx
        /\ o.logged # <<>> => actions'[q] = [ts |-> now, last |-> o.logged]
        /\ o.logged = <<>> => actions'[q] = actions[q]
        /\ Count(o.logged, {"router_update"}) > 0 => peer'[q].ros_id # peer[q].ros_id
        /\ Count(o.logged, RouterStateKinds) > 0 => peer'[q].disabled # peer[q].disabled
        /\ peer'[q].disabled = dev_disabled'[q]

\* C13: when list_wireguard_peers (or make_client) fails for one group of a
\* cycle, the cycle still ends with its commit, and the sample, the rollup
\* increments, the Actions and the peer changes of every peer found in
\* another group are stored with the cycle's timestamp.
C13_GroupIsolation ==
    [][(IsCycle /\ \E p \in DOMAIN peer : obs'[p].status = "skipped")
          => \A q \in DOMAIN peer :
                obs'[q].status = "found" => Committed(q)]_vars

\* one group was unreachable while the peer of the other group had its
\* counter reset detected and logged and its delta added to the rollups
C13_Witness ==
    /\ DOMAIN peer = GroupPeers
    /\ obs[1].status = "skipped"
    /\ obs[2].status = "found"
    /\ obs[2].logged = <<"counter_reset">>
    /\ obs[2].drx = 1
    /\ actions[2] = [ts |-> now - 1, last |-> obs[2].logged]
    /\ usage_sample[2][1].ts = now - 1
    /\ RowOrZero(usage_daily[2], day_key(now - 1)).rx >= 1

\* C14: a cycle that skips the group of a peer leaves the peer row (selected,
\* disabled, ros_id, name, allowed_address), its sample, its rollups and its
\* Actions as they were and issues no call for it; the peer stays selected,
\* so the next cycle polls its group again.
C14_SkippedGroupUntouched ==
    [][\A p \in DOMAIN peer :
         (IsCycle /\ obs'[p].status = "skipped") =>
            /\ peer'[p] = peer[p]
            /\ peer'[p].selected
            /\ usage_sample'[p] = usage_sample[p]
            /\ usage_daily'[p] = usage_daily[p]
            /\ usage_monthly'[p] = usage_monthly[p]
            /\ actions'[p] = actions[p]
            /\ dev_disabled'[p] = dev_disabled[p]
            /\ obs'[p].calls = <<>>
            /\ obs'[p].logged = <<>>]_vars

\* a peer was polled, skipped while the router held other values than the
\* store, and polled again by the next cycle
C14_Witness ==
    \E p \in DOMAIN peer :
        /\ obs[p].status = "found"
        /\ hist[p].skipped = 1
        /\ Len(hist[p].log) = 2
        /\ hist[p].log[2].t = hist[p].log[1].t + 2
        /\ hist[p].log[2].drx > 0

\* C15: a selected peer that is absent from the list its router returned is
\* unselected with exactly one router_missing Action, gets no sample, no
\* rollup change, no call and no other Action in that cycle and keeps its
\* sample and rollups; while a peer is not selected, a cycle does nothing
\* for it.
C15_PeerMissing ==
    [][\A p \in DOMAIN peer :
         /\ (IsCycle /\ obs'[p].status = "missing") =>
               /\ peer[p].selected
               /\ peer'[p] = [peer[p] EXCEPT !.selected = FALSE]
               /\ obs'[p].logged = <<"router_missing">>
               /\ actions'[p] = [ts |-> now, last |-> <<"router_missing">>]
               /\ obs'[p].calls = <<>>
               /\ usage_sample'[p] = usage_sample[p]
               /\ usage_daily'[p] = usage_daily[p]
               /\ usage_monthly'[p] = usage_monthly[p]
               /\ dev_disabled'[p] = dev_disabled[p]
         /\ (IsCycle /\ ~peer[p].selected) =>
               /\ obs'[p] = idle_obs
               /\ peer'[p] = peer[p]
               /\ usage_sample'[p] = usage_sample[p]
               /\ usage_daily'[p] = usage_daily[p]
               /\ usage_monthly'[p] = usage_monthly[p]
               /\ actions'[p] = actions[p]
               /\ dev_disabled'[p] = dev_disabled[p]]_vars

\* a peer with a sample and a rollup row went missing, and the cycle after
\* that one polled the other peer and left this one alone
C15_Witness ==
    \E p, q \in DOMAIN peer :
        /\ ~peer[p].selected
        /\ actions[p] = [ts |-> now - 2, last |-> <<"router_missing">>]
        /\ obs[p] = idle_obs
        /\ usage_sample[p] # <<>>
        /\ obs[q].status = "found"

\* ---- properties of the disabled flag ------------------------------------------
\* the router-side flag of p as the cycle left it: the snapshot value, replaced
\* by the argument of the last set_peer_disabled call that succeeded
DeviceAfter(p) ==
    LET c == obs'[p].calls
        done == {i \in 1..Len(c) : c[i].ok}
    IN  IF done = {} THEN dev_disabled[p]
        ELSE c[CHOOSE i \in done : \A j \in done : j <= i].disabled

\* C16: after a cycle that found a peer with a ros_id, peer.disabled is the
\* router-side flag as the cycle left it; a cycle that finds the stored flag
\* different from the router's adopts the router's and logs one
\* router_disable (router_enable), and logs neither when they agree.
C16_DisabledMirrorsDevice ==
    [][\A p \in DOMAIN peer :
         (CycleFound(p) /\ peer'[p].ros_id # "") =>
            LET lg == obs'[p].logged
                adopt == IF dev_disabled[p] THEN "router_disable" ELSE "router_enable"
            IN  /\ dev_disabled'[p] = DeviceAfter(p)
                /\ peer'[p].disabled = DeviceAfter(p)
                /\ peer[p].disabled # dev_disabled[p]
                      => /\ Count(lg, {adopt}) = 1
                         /\ Count(lg, RouterStateKinds) = 1
                         /\ obs'[p].calls = <<>> => peer'[p].disabled = dev_disabled[p]
                /\ peer[p].disabled = dev_disabled[p]
                      => Count(lg, RouterStateKinds) = 0]_vars

\* a cycle found a locally disabled peer enabled on the router, adopted that,
\* and then disabled it on the router because its quota was used up
C16_Witness ==
    \E p \in DOMAIN peer :
        /\ obs[p].status = "found"
        /\ peer[p].ros_id # ""
        /\ obs[p].logged = <<"router_enable", "quota_disable">>
        /\ obs[p].calls = <<disable_ok>>
        /\ peer[p].disabled
        /\ dev_disabled[p]

\* the kinds of Action that record a change of peer.disabled to TRUE / FALSE
DisabledKinds == {"router_disable", "quota_disable", "window_disable", "manual_disable"}
EnabledKinds == {"router_enable", "quota_enable", "window_enable", "manual_enable"}

\* C17: every step that changes peer.disabled adds, with the same commit, an
\* Action of the peer that records the new value.
C17_TransitionsLogged ==
    [][\A p \in DOMAIN peer :
         peer'[p].disabled # peer[p].disabled =>
            /\ actions'[p] # actions[p]
            /\ actions'[p].last # <<>>
            /\ actions'[p].last[Len(actions'[p].last)]
                  \in IF peer'[p].disabled THEN DisabledKinds ELSE EnabledKinds]_vars

\* ---- properties of the scheduler ----------------------------------------------
\* executions of _poll_once that have begun and not returned
ActiveCycles == SumSeq([j \in 1..Len(sched.jobs) |-> sched.jobs[j].running])

\* C18: at most one execution of _poll_once is active at any time; a run time
\* that comes while the cycle is still running starts no second execution.
C18_SingleActiveCycle ==
    /\ ActiveCycles <= 1
    /\ sched.started => sched.starts = 1

\* the run time of the job came while its cycle was still running, and the
\* run was skipped
C18_Witness ==
    /\ sched.started
    /\ sched.jobs[1].running = 1
    /\ sched.jobs[1].missed >= 1
    /\ sched.jobs[1].next > now

\* C20: update_settings with n > 0 on a started scheduler leaves the one
\* scheduler running (no second start) with its one job, sets the job's
\* interval to n with the next run n seconds after the call, and every later
\* run time follows the one before by n; with n <= 0 it leaves the job as it
\* was.  It does not touch a cycle that is in flight, and every cycle in
\* flight runs to its commit.
C20_HotIntervalChange ==
    /\ [][\A n \in DtoIntervals :
            (sched.started /\ update_settings(n)) =>
               /\ sched'.started
               /\ sched'.starts = sched.starts
               /\ Len(sched'.jobs) = 1
               /\ sched'.jobs[1].running = sched.jobs[1].running
               /\ sched'.jobs[1].begun = sched.jobs[1].begun
               /\ n > 0 => /\ sched'.jobs[1].interval = n
                            /\ sched'.jobs[1].next = now + n
               /\ n <= 0 => sched'.jobs = sched.jobs]_vars
    /\ [][\A j \in 1..Len(sched.jobs) :
            (/\ Len(sched'.jobs) = Len(sched.jobs)
             /\ \/ sched'.jobs[j].running > sched.jobs[j].running
                \/ sched'.jobs[j].missed > sched.jobs[j].missed)
               => /\ sched'.jobs[j].interval > 0
                  /\ sched'.jobs[j].next = sched.jobs[j].next + sched'.jobs[j].interval]_vars
    /\ (ActiveCycles = 1)
          ~> (ActiveCycles = 0 /\ \E p \in DOMAIN peer : obs[p].status \in CycleStatuses)

\* the interval was changed while a cycle was in flight, and that cycle has
\* committed its sample
C20_Witness ==
    /\ sched.started
    /\ sched.jobs[1].interval = 3
    /\ sched.jobs[1].running = 0
    /\ sched.jobs[1].begun < sched.jobs[1].since
    /\ \E p \in DOMAIN peer :
          /\ obs[p].status = "found"
          /\ usage_sample[p][1].ts >= sched.jobs[1].since

\* ---- properties of the commit ---------------------------------------------------
\* the stored sample of p is the sample of the last poll whose deltas are in
\* the rollups, and the rollups hold the deltas of exactly the stored polls
SampleMatchesRollups(p) ==
    LET log == hist[p].log
        last == log[Len(log)]
    IN  /\ (usage_sample[p] = <<>>) <=> (log = <<>>)
        /\ log # <<>> =>
              usage_sample[p][1] = [ts |-> last.t, rx |-> last.rx, tx |-> last.tx]
        /\ \A d \in DOMAIN usage_daily[p] \cup {day_key(t) : t \in PollTimes(log)} :
              RowOrZero(usage_daily[p], d) = DeltaSum(log, day_key, d)
        /\ \A m \in DOMAIN usage_monthly[p] \cup {month_key(t) : t \in PollTimes(log)} :
              RowOrZero(usage_monthly[p], m) = DeltaSum(log, month_key, m)

\* the tables a cycle writes
StoreTables == <<peer, usage_sample, usage_daily, usage_monthly, actions>>

\* C19: the tables change only in the commit step of a cycle, which writes
\* the samples, rollup increments, Actions and peer changes of all its peers
\* at once; a cycle that aborts leaves the tables as they were; in every
\* state, a cycle in flight or aborted included, the stored sample and the
\* stored rollups of every peer come from the same polls.
C19_CycleAtomicity ==
    /\ [](\A p \in DOMAIN peer : SampleMatchesRollups(p))
    /\ [][StoreTables' # StoreTables =>
            /\ session.open
            /\ session.todo = {}
            /\ ~session'.open
            /\ \A p \in DOMAIN peer :
                  /\ peer'[p] = session.res[p].peer
                  /\ usage_sample'[p] = session.res[p].sample
                  /\ usage_daily'[p] = session.res[p].daily
                  /\ usage_monthly'[p] = session.res[p].monthly
                  /\ actions'[p] = session.res[p].actions]_vars
    /\ [][(session.open /\ ~session'.open /\ \E p \in DOMAIN peer : obs'[p].status = "aborted")
            => StoreTables' = StoreTables]_vars

\* a cycle computed a non-zero delta for one peer and was aborted before the
\* other peer was handled
C19_Witness ==
    \E p, q \in DOMAIN peer :
        /\ ~session.open
        /\ obs[p].status = "aborted"
        /\ obs[p].drx > 0
        /\ obs[q].status = "aborted"
        /\ obs[q].drx = 0
        /\ usage_sample[p] # <<>>
        /\ usage_sample[p][1].ts < now - 1

\* ---- SpecManual: the administrator's PATCH /peers/{id} requests ---------------
NextManual ==
    \/ \E p \in DOMAIN peer, s \in DtoBools, d \in DtoBools, f \in BOOLEAN :
          update_peer(p, s, d, f)
    \/ \E p \in DOMAIN peer : router_toggle(p)

SpecManual == Init /\ [][NextManual]_vars

ManualStatuses == {"manual", "manual_failed"}

\* the step is an update_peer request for p
ManualRequest(p) == ops' = ops + 1 /\ obs'[p].status \in ManualStatuses

InitDelete ==
    /\ InitStore(PairPeers, RosIds)
    /\ hist = [p \in PairPeers |-> no_hist]

NextDelete ==
    \/ \E p \in DOMAIN peer, skip \in BOOLEAN, r \in BOOLEAN, f \in BOOLEAN :
          delete_peer(p, skip, r, f)
    \/ \E p \in DOMAIN peer, d \in DtoBools :
          update_peer(p, "none", d, FALSE)
    \/ \E p \in DOMAIN peer : router_toggle(p)

SpecDelete == InitDelete /\ [][NextDelete]_vars

\* C24: delete_peer removes the local peer record only if the removal on the
\* device succeeded or was not attempted (skip_router set, no device
\* reference, or no device row); when the device removal fails the request
\* ends in an error and the local record is retained.
C24_ExplicitDelete ==
    [][\A p \in DOMAIN peer :
         /\ (p \notin DOMAIN peer') =>
               /\ obs'[p].status = "deleted"
               /\ \/ obs'[p].calls = <<remove_ok>> /\ p \notin DOMAIN dev_disabled'
                  \/ obs'[p].calls = <<>> /\ dev_disabled' = dev_disabled
               /\ \A q \in DOMAIN peer : q # p => q \in DOMAIN peer' /\ peer'[q] = peer[q]
         /\ \A skip \in BOOLEAN, r \in BOOLEAN, f \in BOOLEAN :
               delete_peer(p, skip, r, f) =>
                  IF r /\ peer[p].ros_id # "" /\ ~skip
                  THEN IF f
                       THEN peer' = peer /\ dev_disabled' = dev_disabled
                       ELSE p \notin DOMAIN peer' /\ p \notin DOMAIN dev_disabled'
                  ELSE p \notin DOMAIN peer' /\ dev_disabled' = dev_disabled]_vars

\* a delete of a peer with a device reference failed and kept the record,
\* after the other peer had been deleted on the router and locally
C24_Witness ==
    \E p, q \in DOMAIN obs :
        /\ obs[p].status = "delete_failed"
        /\ p \in DOMAIN peer
        /\ peer[p].ros_id # ""
        /\ p \in DOMAIN dev_disabled
        /\ q \notin DOMAIN peer
        /\ q \notin DOMAIN dev_disabled

\* ---- SpecReconcile: on-demand reconcile between cycles and quota edits --------
ReconcileInputs ==
    [hit : {"found"}, ros_id : RosIds, name : {""}, allowed_address : {""},
     rx : RxVals, tx : {0}, fails : {{}}, tie : {1}]

NextReconcile ==
    \/ poll_once(ReconcileInputs)
    \/ \E p \in DOMAIN peer, l \in WindowLimitDtos,
          vf \in WindowFromDtos, vu \in WindowUntilDtos :
          patch_peer_quota(p, l, vf, vu)
    \/ \E p \in DOMAIN peer, f \in BOOLEAN : reconcile_peer(p, f)

\* the store of a peer that earlier cycles polled before the start time 2:
\* its last sample and the rollup rows of day 0 and month 0
seeded_sample == <<[ts |-> 1, rx |-> 3, tx |-> 0]>>
seeded_rows == [k \in {0} |-> [rx |-> 2, tx |-> 0]]

InitReconcile ==
    /\ peer \in [InitPeers -> [router_id : {1}, ros_id : RosIds, name : {""},
                               allowed_address : {""},
                               disabled : {FALSE}, selected : {TRUE}]]
    /\ now \in StartTimes
    /\ \E seeded \in BOOLEAN :
          /\ seeded => now = 2
          /\ usage_sample = [p \in InitPeers |-> IF seeded THEN seeded_sample ELSE <<>>]
          /\ usage_daily = [p \in InitPeers |-> IF seeded THEN seeded_rows ELSE <<>>]
          /\ usage_monthly = [p \in InitPeers |-> IF seeded THEN seeded_rows ELSE <<>>]
    /\ quota = [p \in InitPeers |-> <<>>]
    /\ valid_from = [p \in InitPeers |-> <<>>]
    /\ valid_until = [p \in InitPeers |-> <<>>]
    /\ actions = [p \in InitPeers |-> no_actions]
    /\ dev_disabled = [p \in InitPeers |-> FALSE]
    /\ ops = 0
    /\ obs = [p \in InitPeers |-> idle_obs]
    /\ hist = [p \in InitPeers |-> no_hist]
    /\ sched = no_scheduler
    /\ session = no_session
    /\ settings_kv = <<>>
    /\ settings = poll_interval_seconds

SpecReconcile == InitReconcile /\ [][NextReconcile]_vars

ReconcileStatuses == {"reconcile", "reconcile_failed"}

NoInterfaceInputs ==
    [hit : {"no_interface"}, ros_id : {""}, name : {""}, allowed_address : {""}]

SyncInputs == LiveInputs \cup NoInterfaceInputs
SyncNewIds == {2}

NextSync ==
    \/ sync_router(SyncInputs, SyncNewIds)
    \/ \E p \in DOMAIN peer, s \in DtoBools : update_peer(p, s, "none", FALSE)
    \/ \E p \in DOMAIN peer : router_toggle(p)

SpecSync == Init /\ [][NextSync]_vars

\* the statuses of a row that the router did not list
SyncAbsentStatuses == {"sync_missing", "sync_no_interface"}
SyncDoneStatuses == SyncAbsentStatuses \cup {"sync", "sync_discovered"}

\* C26: after a successful sync_router, every local peer of the router that
\* does not exist on the router has selected = false, with a router_missing
\* Action logged if it was selected before, and every router peer that had no
\* local record exists locally with selected = false.
C26_SyncUnselectsAbsent ==
    [][\A p \in DOMAIN peer' :
         (ops' = ops + 1 /\ obs'[p].status \in SyncDoneStatuses) =>
            /\ (p \in DOMAIN peer /\ obs'[p].status \in SyncAbsentStatuses) =>
                  /\ ~peer'[p].selected
                  /\ peer[p].selected => obs'[p].logged = <<"router_missing">>
            /\ (p \notin DOMAIN peer) =>
                  /\ obs'[p].status = "sync_discovered"
                  /\ ~peer'[p].selected]_vars

\* ---- order of the samples ---------------------------------------------------
\* the row of the log of polls with the greatest timestamp (the row that
\* order_by(ts desc).first() of scheduler.py 107-112 returns); <<>> when two
\* rows share the greatest timestamp or the log is empty
last_sample_query(log) ==
    LET top == {i \in DOMAIN log : \A j \in DOMAIN log : log[j].t <= log[i].t}
    IN  IF Cardinality(top) = 1
        THEN LET i == CHOOSE k \in top : TRUE
             IN  <<[ts |-> log[i].t, rx |-> log[i].rx, tx |-> log[i].tx]>>
        ELSE <<>>

\* the deltas of the i-th poll were computed against the poll before it
DeltaAgainstPrevious(log, i) ==
    IF i = 1 THEN log[i].drx = 0 /\ log[i].dtx = 0
    ELSE /\ log[i].drx = delta(log[i - 1].rx, log[i].rx)
         /\ log[i].dtx = delta(log[i - 1].tx, log[i].tx)

\* C21: a committed cycle appends exactly one sample for every selected peer
\* found in the snapshot of its group and none for the other peers; the
\* sample timestamps of a peer strictly increase in the order of the cycles,
\* so the sample that the delta calculator reads (the greatest timestamp) is
\* the one written by the most recent earlier cycle that polled the peer.
C21_SampleOrdering ==
    /\ [](\A p \in DOMAIN peer :
            LET log == hist[p].log
            IN  /\ \A i, j \in DOMAIN log : i < j => log[i].t < log[j].t
                /\ usage_sample[p] = last_sample_query(log)
                /\ \A i \in DOMAIN log : DeltaAgainstPrevious(log, i))
    /\ [][\A p \in DOMAIN peer :
            IF session.open /\ ~session'.open /\ obs'[p].status = "found"
            THEN /\ Len(hist'[p].log) = Len(hist[p].log) + 1
                 /\ usage_sample'[p] =
                       <<[ts |-> session.t, rx |-> session.inp[p].rx,
                          tx |-> session.inp[p].tx]>>
            ELSE /\ hist'[p].log = hist[p].log
                 /\ usage_sample'[p] = usage_sample[p]]_vars

\* a peer was polled by two committed cycles with a cycle in between that
\* did not poll it, and the second poll computed its delta
C21_Witness ==
    \E p \in DOMAIN peer :
        /\ ~session.open
        /\ Len(hist[p].log) = 2
        /\ hist[p].log[2].t > hist[p].log[1].t + 1
        /\ hist[p].log[2].drx > 0

\* ---- rollup rows of one cycle ------------------------------------------------
\* table new is table old with the row of key created or incremented by the
\* deltas of the cycle, every other row as it was
RowIncremented(old, new, key, drx, dtx) ==
    /\ DOMAIN new = DOMAIN old \cup {key}
    /\ new[key] = [rx |-> RowOrZero(old, key).rx + drx,
                   tx |-> RowOrZero(old, key).tx + dtx]
    /\ \A k \in DOMAIN old : k # key => new[k] = old[k]

\* C22: a cycle whose deltas for a peer are both 0 (baseline poll or idle
\* peer) neither creates nor changes a daily or monthly rollup row of that
\* peer; a cycle with a non-zero delta creates or increments exactly the row
\* of the cycle's UTC day and the row of the cycle's UTC month by the deltas.
C22_ZeroDeltaNoRollup ==
    [][\A p \in DOMAIN peer :
         CycleFound(p) =>
            IF obs'[p].drx = 0 /\ obs'[p].dtx = 0
            THEN /\ usage_daily'[p] = usage_daily[p]
                 /\ usage_monthly'[p] = usage_monthly[p]
            ELSE /\ RowIncremented(usage_daily[p], usage_daily'[p],
                                   day_key(now), obs'[p].drx, obs'[p].dtx)
                 /\ RowIncremented(usage_monthly[p], usage_monthly'[p],
                                   month_key(now), obs'[p].drx, obs'[p].dtx)]_vars

\* a cycle with only a tx delta incremented the monthly row that an earlier
\* cycle of the same month had created
C22_Witness ==
    \E p \in DOMAIN peer :
        /\ obs[p].status = "found"
        /\ obs[p].drx = 0
        /\ obs[p].dtx > 0
        /\ usage_sample[p] # <<>>
        /\ usage_sample[p][1].ts = now - 1
        /\ month_key(now - 1) \in DOMAIN usage_monthly[p]
        /\ usage_monthly[p][month_key(now - 1)].rx > 0
        /\ usage_monthly[p][month_key(now - 1)].tx = obs[p].dtx

\* ---- SpecReset: counters that go down, with a quota -----------------------------
ResetInputs ==
    [hit : {"found"}, ros_id : RosIds, name : {""}, allowed_address : {""},
     rx : RxVals, tx : TxVals, fails : FailSets, tie : {1, 2}]

NextReset ==
    \/ poll_once(ResetInputs)
    \/ \E p \in DOMAIN peer : patch_peer_quota(p, <<2>>, keep_dto, keep_dto)

SpecReset == Init /\ [][NextReset]_vars

CounterResetKinds == {"counter_reset"}

\* a counter of the snapshot is lower than in the stored sample
CounterLower(p) ==
    /\ usage_sample[p] # <<>>
    /\ \/ usage_sample'[p][1].rx < usage_sample[p][1].rx
       \/ usage_sample'[p][1].tx < usage_sample[p][1].tx

\* C27: a cycle appends exactly one counter_reset Action for a peer iff a
\* previous sample exists and rx or tx is lower than in that sample (one
\* Action when both are lower, none on the baseline poll or when neither is
\* lower); the cycle goes on with the peer: the rollups take the deltas
\* counted since the reset and the quota is enforced on the new total.
C27_CounterResetLogged ==
    [][\A p \in DOMAIN peer :
         CycleFound(p) =>
            /\ Count(obs'[p].logged, CounterResetKinds) = IF CounterLower(p) THEN 1 ELSE 0
            /\ CounterLower(p) =>
                  /\ obs'[p].drx = delta(usage_sample[p][1].rx, usage_sample'[p][1].rx)
                  /\ obs'[p].dtx = delta(usage_sample[p][1].tx, usage_sample'[p][1].tx)
                  /\ (obs'[p].drx # 0 \/ obs'[p].dtx # 0) =>
                        /\ RowIncremented(usage_daily[p], usage_daily'[p],
                                          day_key(now), obs'[p].drx, obs'[p].dtx)
                        /\ RowIncremented(usage_monthly[p], usage_monthly'[p],
                                          month_key(now), obs'[p].drx, obs'[p].dtx)
                  /\ (OverQuotaAt(quota[p], usage_daily'[p], now) /\ ~dev_disabled[p]) =>
                        Count(obs'[p].logged, QuotaDisableKinds) = 1]_vars

\* a cycle saw rx lower than in the stored sample, logged one counter_reset,
\* added the deltas to the rollups and disabled the peer for its quota
C27_Witness ==
    \E p \in DOMAIN peer :
        /\ obs[p].status = "found"
        /\ obs[p].logged = <<"counter_reset", "quota_disable">>
        /\ obs[p].drx = 1
        /\ obs[p].dtx = 2
        /\ usage_monthly[p][month_key(now - 1)] = [rx |-> 1, tx |-> 2]
        /\ peer[p].disabled
\* ---- device commands of one cycle ------------------------------------------------
\* set_peer_disabled calls of that cycle for p that returned
OkCalls(p) == {i \in 1..Len(obs'[p].calls) : obs'[p].calls[i].ok}

\* C30 as stated: within a single cycle the Policy Engine issues at most one
\* setDisabled call for any peer, and never both a disable and an enable for
\* the same peer.
C30_OneCommandPerCycle ==
    [][\A p \in DOMAIN peer :
         CycleFound(p) =>
            /\ Len(obs'[p].calls) <= 1
            /\ ~(DisableCalls(p) # {} /\ EnableCalls(p) # {})]_vars

\* C30, amended: within a single cycle the Policy Engine issues at most one
\* setDisabled call that succeeds for any peer and never both a disable and
\* an enable for the same peer; it issues a second call only when the quota
\* disable call failed and the peer is also outside its window, and that
\* second call is the window check's disable.
C30_OneCommandUnlessQuotaCallFailed ==
    [][\A p \in DOMAIN peer :
         CycleFound(p) =>
            /\ Cardinality(OkCalls(p)) <= 1
            /\ ~(DisableCalls(p) # {} /\ EnableCalls(p) # {})
            /\ Len(obs'[p].calls) <= 2
            /\ Len(obs'[p].calls) = 2 =>
                  /\ obs'[p].calls[1] = disable_raised
                  /\ obs'[p].calls[2].disabled
                  /\ Count(obs'[p].logged, {"quota_disable_failed"}) = 1
                  /\ Count(obs'[p].logged, WindowDisableKinds) = 1
                  /\ OutsideAt(valid_from[p], valid_until[p], now)]_vars

\* a cycle's quota disable call failed and its window disable call, the
\* second call of the cycle for the peer, succeeded
C30_Witness ==
    \E p \in DOMAIN peer :
        /\ obs[p].status = "found"
        /\ obs[p].calls = <<disable_raised, disable_ok>>
        /\ obs[p].logged = <<"quota_disable_failed", "window_disable">>
        /\ peer[p].disabled
        /\ dev_disabled[p]

\* ---- the Action the gating lookup reads -----------------------------------------
\* C29: after a cycle commits a quota_disable or window_disable for a peer,
\* that Action is the peer's unique most recent Action: no other Action of
\* the peer has an equal or later timestamp, so the gating lookup of the next
\* cycle can only return it.
C29_UniqueLatestAction ==
    [][\A p \in DOMAIN peer :
         (CycleFound(p) /\ Count(obs'[p].logged, AutoDisableKinds) > 0) =>
            /\ actions'[p].ts = now
            /\ Len(actions'[p].last) = 1
            /\ actions'[p].last[1] \in AutoDisableKinds
            /\ \A i \in TieIndexes :
                  pick_last_action(actions'[p], i) \in AutoDisableKinds]_vars

\* ---- SpecEnable: cycles only, on a reachable router, with a window start ---------
EnableInputs ==
    [hit : {"found"}, ros_id : RosIds, name : {""}, allowed_address : {""},
     rx : RxVals, tx : {0}, fails : {{}, {1}}, tie : {1, 2}]

\* the store of a selected peer whose access window starts at time 1
InitEnable ==
    /\ peer \in [InitPeers -> [router_id : {1}, ros_id : RosIds, name : {""},
                               allowed_address : {""},
                               disabled : {FALSE}, selected : {TRUE}]]
    /\ usage_sample = [p \in InitPeers |-> <<>>]
    /\ usage_daily = [p \in InitPeers |-> <<>>]
    /\ usage_monthly = [p \in InitPeers |-> <<>>]
    /\ quota = [p \in InitPeers |-> <<>>]
    /\ valid_from \in [InitPeers -> {<<v>> : v \in FromVals}]
    /\ valid_until = [p \in InitPeers |-> <<>>]
    /\ actions = [p \in InitPeers |-> no_actions]
    /\ dev_disabled = [p \in InitPeers |-> FALSE]
    /\ now \in StartTimes
    /\ ops = 0
    /\ obs = [p \in InitPeers |-> idle_obs]
    /\ hist = [p \in InitPeers |-> no_hist]
    /\ sched = no_scheduler
    /\ session = no_session
    /\ settings_kv = <<>>
    /\ settings = poll_interval_seconds

\* a set_peer_disabled call of the cycle raised
CallRaised(o) == \E i \in 1..Len(o.calls) : ~o.calls[i].ok

\* a cycle; set_peer_disabled does not raise in two cycles in a row
enable_cycle ==
    /\ poll_once(EnableInputs)
    /\ \A p \in DOMAIN peer : CallRaised(obs'[p]) => ~CallRaised(obs[p])

NextEnable == enable_cycle

SpecEnable == InitEnable /\ [][NextEnable]_vars

\* the cycles keep running
SpecEnableFair == SpecEnable /\ WF_vars(enable_cycle)

\* cycles that can still run after the state
CyclesLeft == MaxOps - ops

\* C28: while cycles keep running on a reachable device, set_peer_disabled
\* succeeds again after a failure and nobody else touches the peer, a peer
\* that a cycle disabled with quota_disable or window_disable and that is
\* under quota and inside its window is eventually re-enabled, whatever the
\* cycles in between log (counter resets, device reference changes, failed
\* enable attempts).
C28_EventualReenable ==
    \A p \in InitPeers :
        (/\ peer[p].disabled
         /\ Count(obs[p].logged, AutoDisableKinds) > 0
         /\ ~OverQuotaAt(quota[p], usage_daily[p], now)
         /\ InsideAt(valid_from[p], valid_until[p], now)
         /\ CyclesLeft >= 2)
        ~> ~peer[p].disabled

\* ---- SpecRebase: metrics resets between cycles, with the log of polls kept ------
NextRebase ==
    \/ poll_once(UsageInputs)
    \/ \E p \in DOMAIN peer : reset_peer_metrics(p)

SpecRebase == InitCycles /\ [][NextRebase]_vars

\* C34: reset_metrics deletes every sample and rollup row of the peer; the
\* first following cycle that polls the peer stores a sample with both
\* deltas 0 and creates no rollup row; every later cycle adds to the rollups
\* exactly the deltas against the sample stored since the reset, so traffic
\* counted before the reset is never added to a rollup again.
C34_ResetRebaselines ==
    /\ [](\A p \in DOMAIN peer :
            usage_sample[p] = <<>> => usage_daily[p] = <<>> /\ usage_monthly[p] = <<>>)
    /\ [][\A p \in DOMAIN peer :
            /\ reset_peer_metrics(p) =>
                  /\ usage_sample'[p] = <<>>
                  /\ usage_daily'[p] = <<>>
                  /\ usage_monthly'[p] = <<>>
            /\ (CycleFound(p) /\ usage_sample[p] = <<>>) =>
                  /\ obs'[p].drx = 0
                  /\ obs'[p].dtx = 0
                  /\ usage_daily'[p] = <<>>
                  /\ usage_monthly'[p] = <<>>
                  /\ usage_sample'[p] # <<>>
                  /\ usage_sample'[p][1].ts = now
            /\ (CycleFound(p) /\ usage_sample[p] # <<>>) =>
                  /\ obs'[p].drx = delta(usage_sample[p][1].rx, usage_sample'[p][1].rx)
                  /\ obs'[p].dtx = delta(usage_sample[p][1].tx, usage_sample'[p][1].tx)
                  /\ SumBytes(usage_daily'[p], DOMAIN usage_daily'[p])
                        = SumBytes(usage_daily[p], DOMAIN usage_daily[p])
                          + obs'[p].drx + obs'[p].dtx]_vars

\* a peer whose second poll had counted traffic was reset; the third poll
\* stored a new baseline and left the rollups empty
C34_Witness ==
    \E p \in DOMAIN peer :
        LET log == hist[p].log
        IN  /\ Len(log) = 3
            /\ log[2].drx > 0
            /\ log[3].drx = 0
            /\ log[3].dtx = 0
            /\ log[3].rx > 0
            /\ usage_sample[p] = <<[ts |-> log[3].t, rx |-> log[3].rx, tx |-> log[3].tx]>>
            /\ usage_daily[p] = <<>>
            /\ usage_monthly[p] = <<>>

\* ---- SpecGate: reconcile requests on peers disabled by hand or on the router ----
GateInputs ==
    [hit : {"found"}, ros_id : RosIds, name : {""}, allowed_address : {""},
     rx : {1}, tx : {0}, fails : {{}}, tie : {1}]

NextGate ==
    \/ poll_once(GateInputs)
    \/ \E p \in DOMAIN peer, d \in DtoBools : update_peer(p, "none", d, FALSE)
    \/ \E p \in DOMAIN peer : router_toggle(p)
    \/ \E p \in DOMAIN peer, f \in BOOLEAN : reconcile_peer(p, f)

SpecGate == Init /\ [][NextGate]_vars

\* the snapshot of a router that reports p as the store knows it
SameSnapshot(p) ==
    [ros_id |-> peer[p].ros_id, name |-> peer[p].name,
     allowed_address |-> peer[p].allowed_address, disabled |-> dev_disabled[p],
     rx |-> usage_sample[p][1].rx, tx |-> usage_sample[p][1].tx]

\* peer.disabled after a cycle that polls p now, all device calls succeeding
DisabledAfterCycle(p) ==
    poll_peer(p, SameSnapshot(p), {}, pick_last_action(actions[p], 1), now).peer.disabled

\* peer.disabled after a reconcile request now, the device call succeeding
DisabledAfterReconcile(p) ==
    reconcile_desired(quota[p], usage_monthly[p], usage_daily[p],
                      valid_from[p], valid_until[p], now).desired_disabled

\* C33: reconcile_peer re-enables a disabled peer only when the polling cycle
\* would: it never re-enables a peer whose most recent Action is
\* manual_disable or router_disable, and for the same peer state a reconcile
\* request and one polling cycle leave peer.disabled with the same value.
C33_ReconcileGated ==
    /\ [][\A p \in DOMAIN peer :
            (/\ ops' = ops + 1
             /\ obs'[p].status = "reconcile"
             /\ peer[p].disabled
             /\ actions[p].last # <<>>
             /\ actions[p].last[Len(actions[p].last)] \in ExternalDisableKinds)
            => peer'[p].disabled]_vars
    /\ [](\A p \in DOMAIN peer :
            (/\ peer[p].selected
             /\ usage_sample[p] # <<>>
             /\ dev_disabled[p] = peer[p].disabled
             /\ Len(actions[p].last) <= 1)
            => DisabledAfterReconcile(p) = DisabledAfterCycle(p))


\* ---- process start (main.py 24-48, scheduler.py 321-343) ----------------------
\* main.py 34-42 for the key poll_interval_seconds: a persisted row whose
\* value int() accepts replaces settings.poll_interval_seconds
hydrate(kv, configured) ==
    IF kv = <<>> THEN configured
    ELSE IF int(kv[1]).ok THEN int(kv[1]).value
    ELSE configured

\* scheduler.py 327-332: the seconds handed to IntervalTrigger
ensure_scheduler_interval(kv, configured) ==
    IF kv # <<>> /\ isdigit(kv[1]) /\ int(kv[1]).value > 0
    THEN int(kv[1]).value
    ELSE configured

\* the startup hook of a process: hydration, then ensure_scheduler()
_start ==
    /\ ~sched.started
    /\ settings' = hydrate(settings_kv, settings)
    /\ sched' = [started |-> TRUE, starts |-> sched.starts + 1,
                 jobs |-> <<new_job(ensure_scheduler_interval(settings_kv, settings'),
                                    now)>>]
    /\ UNCHANGED <<peer, usage_sample, usage_daily, usage_monthly, quota,
                   valid_from, valid_until, actions, dev_disabled, now, ops, obs,
                   hist, session, settings_kv>>

\* the process ends: _scheduler and the settings object are gone with it, the
\* settings_kv rows stay
stop_process ==
    /\ sched.started
    /\ sched' = no_scheduler
    /\ settings' = poll_interval_seconds
    /\ session' = no_session
    /\ UNCHANGED <<peer, usage_sample, usage_daily, usage_monthly, quota,
                   valid_from, valid_until, actions, dev_disabled, now, ops, obs,
                   hist, settings_kv>>

\* values of poll_interval_seconds an operator sends in SettingsDTO
StartupDtoIntervals == {0 - 5, 0, 3, 12}

\* requests are served once the startup hook has returned
settings_request(seconds) ==
    /\ sched.started
    /\ update_settings(seconds)

NextStartup ==
    \/ _start
    \/ \E seconds \in StartupDtoIntervals : settings_request(seconds)
    \/ stop_process
    \/ tick

SpecStartup == InitSched /\ [][NextStartup]_vars

\* C35: whatever value of poll_interval_seconds update_settings has persisted
\* (0 and negative numbers included), the polling job a process start creates
\* has a positive interval: the persisted value when it is a positive integer,
\* otherwise the configured default
C35_StartupIntervalValid ==
    [][_start =>
         /\ sched'.jobs[1].interval > 0
         /\ settings_kv = <<>> => sched'.jobs[1].interval = poll_interval_seconds
         /\ \A n \in StartupDtoIntervals :
               settings_kv = <<str(n)>> =>
                  sched'.jobs[1].interval = IF n > 0 THEN n ELSE poll_interval_seconds]_vars


\* ---- SpecAbort: cycles step by step on a peer with a window start ---------------
AbortInputs ==
    [hit : {"found"}, ros_id : RosIds, name : {""}, allowed_address : {""},
     rx : RxVals, tx : {0}, fails : {{}, {1}}, tie : {1}]

NextAbort ==
    \/ begin_cycle(AbortInputs)
    \/ \E p \in DOMAIN peer : step_peer(p)
    \/ commit_cycle
    \/ abort_cycle

SpecAbort == InitEnable /\ [][NextAbort]_vars

\* the last cycle ended without its commit after a set_peer_disabled(True) of
\* its own for p had succeeded on the router
AbortedAfterDisable(p) ==
    /\ obs[p].status = "aborted"
    /\ \E i \in 1..Len(obs[p].calls) : obs[p].calls[i].disabled /\ obs[p].calls[i].ok

\* C32: when a cycle aborts before its commit after a setDisabled(true) it
\* issued for a peer has succeeded on the device, the following cycle records
\* that disable as quota_disable/window_disable and not as router_disable, so
\* that the peer stays eligible for the auto re-enable
C32_AbortedDisableKeepsKind ==
    [][\A p \in DOMAIN peer :
         (AbortedAfterDisable(p) /\ commit_cycle /\ obs'[p].status = "found") =>
            /\ Count(obs'[p].logged, {"router_disable"}) = 0
            /\ peer'[p].disabled =>
                  \A i \in TieIndexes :
                     pick_last_action(actions'[p], i) \in AutoDisableKinds]_vars


\* ---- SpecRace: a cycle, step by step, and PATCH /peers/{id} on one store --------
\* lines 33-302 for the peer of a cycle that has read the clock: the row is
\* loaded, the router lists the peer, the rollups, the window and the most
\* recent Action are read and the writes and the router commands are decided
read_peer(p) ==
    /\ session.open
    /\ p \in session.todo
    /\ session.res[p].obs.status = "idle"
    /\ LET r == poll_result(p, session.inp[p], session.t)
       IN  session' = [session EXCEPT
                         !.res[p] = r,
                         !.todo = IF r.obs.status = "idle" THEN @ \ {p} ELSE @]
    /\ UNCHANGED <<peer, usage_sample, usage_daily, usage_monthly, quota,
                   valid_from, valid_until, actions, dev_disabled, now, ops, obs,
                   hist, sched, settings_kv, settings>>

\* lines 206, 264, 306 for one peer: the set_peer_disabled calls that were
\* decided act on the router
call_peer(p) ==
    /\ session.open
    /\ p \in session.todo
    /\ session.res[p].obs.status # "idle"
    /\ LET calls == session.res[p].obs.calls
           done == {i \in 1..Len(calls) : calls[i].ok}
       IN  dev_disabled' =
              IF done = {} THEN dev_disabled
              ELSE [dev_disabled EXCEPT
                      ![p] = calls[CHOOSE i \in done : \A j \in done : j <= i].disabled]
    /\ session' = [session EXCEPT !.todo = @ \ {p}]
    /\ UNCHANGED <<peer, usage_sample, usage_daily, usage_monthly, quota,
                   valid_from, valid_until, actions, now, ops, obs, hist, sched,
                   settings_kv, settings>>

RaceInputs ==
    [hit : {"found"}, ros_id : RosIds, name : {""}, allowed_address : {""},
     rx : RxVals, tx : {0}, fails : {{}}, tie : {1}]

NextRace ==
    \/ begin_cycle(RaceInputs)
    \/ \E p \in DOMAIN peer : read_peer(p)
    \/ \E p \in DOMAIN peer : call_peer(p)
    \/ commit_cycle
    \/ \E p \in DOMAIN peer : update_peer(p, "none", "true", FALSE)

SpecRace == InitEnable /\ [][NextRace]_vars

\* C31: with PATCH /peers/{id} and a polling cycle interleaved on the shared
\* store and router, a manual disable is never undone by the cycle's auto
\* re-enable: no cycle that re-enabled the peer leaves it enabled on the router
\* and in the store while manual_disable is its most recent Action
C31_ManualDisableNotUndone ==
    \A p \in DOMAIN peer :
       ~ /\ Count(obs[p].logged, AutoEnableKinds) > 0
         /\ ~dev_disabled[p]
         /\ ~peer[p].disabled
         /\ \A i \in TieIndexes : pick_last_action(actions[p], i) = "manual_disable"

====
